---- MODULE Spec2Model ----
(***************************************************************************)
(* State-machine model of the retrieval-augmented answering agent of       *)
(* ollama-webui: the tool decision (AIAgent.decideTool), the answer        *)
(* pipeline (AIAgent.answer), the web-search client                        *)
(* (WebSearchService.search) and the agent route that streams the answer.  *)
(*                                                                         *)
(* JavaScript is single-threaded: code between two awaits runs as one      *)
(* step.  Every action below is the code between two suspension points.    *)
(***************************************************************************)
EXTENDS Integers, Sequences, FiniteSets, TLC

VARIABLES
    now,            \* Date.now(), in units of 150000 ms
    searchCache,    \* WebSearchService.searchCache : key -> SearchCache
    ws,             \* per caller: the WebSearchService.search call in flight
    lastOk,         \* history: normalized query -> time of its last successful fetch
    decisionCache,  \* AIAgent.decisionCache : lowercased query -> Tool
    lastTool,       \* history: lowercased query -> what the last finished decideTool returned
    dc,             \* per caller: the AIAgent.decideTool call in flight
    hs,             \* one evaluation of the heuristic decision on two scores
    rq,             \* per request: the POST /api/agent handler and its answer()
    collection,     \* the vector index: id -> document text
    embedCache,     \* RAGService.embedCache: the texts whose embedding is cached
    issued,         \* history: the ids handed to collection.add, call by call
    clock,          \* Date.now() in milliseconds, as addDocuments reads it
    ing,            \* per caller: the RAGService.addDocuments call in flight
    rs,             \* one RAGService.search on one index response
    agentInstance,  \* route.ts agentInstance is set
    initError,      \* route.ts initError: "" for null, else the error message
    apiKey,         \* process.env.TAVILY_API_KEY is set
    ga,             \* per caller: the request of the agent route in getAgent
    oc,             \* per caller: the OllamaService generate or embed call in flight
    rd              \* the client's reader of one streamed answer

vars == <<now, searchCache, ws, lastOk, decisionCache, lastTool, dc, hs, rq,
          collection, embedCache, issued, clock, ing, rs,
          agentInstance, initError, apiKey, ga, oc, rd>>

webVars    == <<now, searchCache, ws, lastOk>>
decideVars == <<decisionCache, lastTool, dc>>
ingestVars == <<collection, embedCache, issued, clock, ing>>
ragVars    == <<ingestVars, rs>>
initVars   == <<agentInstance, initError, apiKey, ga>>
clientVars == <<oc, rd>>

-----------------------------------------------------------------------------
(* Bounds of the model *)

\* the clock runs from 0 to MaxTime
MaxTime == 2
\* heuristic scores are drawn from 0..MaxScore
MaxScore == 9
\* tokens of one streamed generation
MaxTokens == 2
\* neighbours in one response of the vector index
MaxNeighbours == 2
\* the millisecond clock runs from 0 to MaxClock
MaxClock == 1
\* ids handed to the index in one run
MaxIds == 4
\* the longest time a call of the generation client is followed, in minutes
MaxWait == 4
\* the longest read chunk, in pieces of a frame (a frame has 9)
MaxChunk == 12

(* Program constants *)

\* WEB_SEARCH.CACHE_DURATION: 300000 ms = 2 units of 150000 ms
CacheDuration == 2
\* WEB_SEARCH.MAX_RESULTS
MaxResults == 5
\* characters per streamed chunk
chunkSize == 3
\* RAG_MIN_SIMILARITY 0.3, in tenths
MinSimilarityScore == 3

\* the callers of the services; the first one is also an HTTP request
Callers == {"c1", "c2"}
Reqs    == {"c1"}

Tools == {"RAG", "WebSearch", "Both"}

-----------------------------------------------------------------------------
(* Strings.  A query is a sequence of tokens; a token is a word or a blank. *)
(* toLowerCase maps each token to its lower-case form, trim drops the       *)
(* blanks at both ends.                                                     *)

LowerToken(t) ==
    CASE t = "Latest"  -> "latest"
      [] t = "News"    -> "news"
      [] t = "Authrix" -> "authrix"
      [] OTHER         -> t

toLowerCase(q) == [i \in 1..Len(q) |-> LowerToken(q[i])]

RECURSIVE trimStart(_)
trimStart(q) == IF q # <<>> /\ Head(q) = " " THEN trimStart(Tail(q)) ELSE q

RECURSIVE trimEnd(_)
trimEnd(q) ==
    IF q # <<>> /\ q[Len(q)] = " " THEN trimEnd(SubSeq(q, 1, Len(q) - 1)) ELSE q

trim(q) == trimEnd(trimStart(q))

\* String.prototype.includes on the token level
includes(q, k) == \E i \in 1..Len(q) : q[i] = k

Queries ==
    { <<"latest", "news">>,
      <<"Latest", "News">>,
      <<"Latest", "News", " ">>,
      <<"latest", "authrix">>,
      <<"hello">> }

Min(a, b) == IF a < b THEN a ELSE b
Abs(x) == IF x < 0 THEN -x ELSE x

-----------------------------------------------------------------------------
(* WebSearchService  (src/lib/services/web-search.ts)                       *)

\* "no value": null / undefined of a WebSearchResult
NoResult == [content |-> <<>>, sources |-> <<>>, answer |-> "", fetchedAt |-> -1]

\* bodies the search API can answer with (data.answer, data.results)
ApiResponses ==
    { [answer |-> "", results |-> <<>>],
      [answer |-> "summary",
       results |-> << [title |-> "", url |-> "u1", content |-> "w1", score |-> 87] >>] }

\* one entry of data.results -> WebSearchSource (score is kept in percent;
\* a score of 0 is falsy and becomes undefined, written -1)
TavilySource(r) ==
    [title   |-> IF r.title = "" THEN "Untitled" ELSE r.title,
     url     |-> r.url,
     content |-> r.content,
     score   |-> IF r.score = 0 THEN -1 ELSE r.score]

\* parseTavilyResponse; fetchedAt stamps the result with the time of its fetch
parseTavilyResponse(data, t) ==
    LET results == SubSeq(data.results, 1, Min(Len(data.results), MaxResults))
        sources == [i \in 1..Len(results) |-> TavilySource(results[i])]
        summary == IF data.answer # "" THEN << "Summary", data.answer >> ELSE <<>>
        listing == IF Len(sources) > 0
                   THEN << "Sources" >> \o [i \in 1..Len(sources) |-> sources[i].content]
                   ELSE <<>>
        parts   == summary \o listing
    IN  [content   |-> IF Len(parts) > 0 THEN parts
                       ELSE << "No relevant web results found." >>,
         sources   |-> sources,
         answer    |-> data.answer,
         fetchedAt |-> t]

getCacheKey(query) == trim(toLowerCase(query))


\* faulty variant: an entry exactly one cache window old still counts as fresh
CacheEntryFreshInclusive(entry) == now - entry.timestamp <= CacheDuration

\* the freshness test of getCachedResult
CacheEntryFresh(entry) == now - entry.timestamp < CacheDuration

getCachedResult(query) ==
    LET key == getCacheKey(query)
    IN  IF key \in DOMAIN searchCache /\ CacheEntryFresh(searchCache[key])
        THEN searchCache[key].result
        ELSE NoResult

\* Map.set
MapSet(m, key, value) ==
    [k \in DOMAIN m \cup {key} |-> IF k = key THEN value ELSE m[k]]

\* faulty variant: the entry is stored under the query as given
setCachedResultRawKey(query, result) ==
    MapSet(searchCache, query, [query |-> query, result |-> result, timestamp |-> now])

setCachedResult(query, result) ==
    LET key == getCacheKey(query)
    IN  MapSet(searchCache, key, [query |-> key, result |-> result, timestamp |-> now])


\* faulty variant: one more retry after a rate limit
RateLimitRetryOnceMore(retryCount) == retryCount <= 2

\* the retry conditions of search
RateLimitRetry(retryCount) == retryCount < 2

\* faulty variant: a second retry after a timeout
TimeoutRetryTwice(retryCount) == retryCount < 2

TimeoutRetry(retryCount)   == retryCount < 1

\* the claim's notion of "the same normalized query"
NormalizedQuery(q) == trim(toLowerCase(q))

\* history: a search for the same normalized query succeeded less than the
\* cache window ago / succeeded before, but not within the cache window
SucceededBefore(q) == NormalizedQuery(q) \in DOMAIN lastOk
SucceededWithinWindow(q) ==
    SucceededBefore(q) /\ now - lastOk[NormalizedQuery(q)] < CacheDuration

\* a caller with no search in flight.  attempts counts the outbound calls of
\* the top-level search, hist lists what each of them got.
WsIdle ==
    [pc |-> "idle", query |-> <<>>, retryCount |-> 0, attempts |-> 0,
     hist |-> <<>>, result |-> NoResult, err |-> "",
     fresh |-> FALSE, stale |-> FALSE]

\* faulty variant: only the top-level call looks at the cache
SearchEnterCacheOnce(call, retryCount) ==
    LET cached == IF retryCount = 0 THEN getCachedResult(call.query) ELSE NoResult
    IN  IF cached # NoResult
        THEN [call EXCEPT !.pc = "done", !.retryCount = retryCount, !.result = cached]
        ELSE [call EXCEPT !.pc = "fetching", !.retryCount = retryCount,
                          !.attempts = @ + 1]

\* search(query, retryCount) up to its first await: the cache check, then the
\* outbound fetch
SearchEnter(call, retryCount) ==
    LET cached == getCachedResult(call.query)
    IN  IF cached # NoResult
        THEN [call EXCEPT !.pc = "done", !.retryCount = retryCount, !.result = cached]
        ELSE [call EXCEPT !.pc = "fetching", !.retryCount = retryCount,
                          !.attempts = @ + 1]

\* a top-level search(query)
SearchCall(q) ==
    SearchEnter([WsIdle EXCEPT !.query = q,
                               !.fresh = SucceededWithinWindow(q),
                               !.stale = SucceededBefore(q) /\ ~SucceededWithinWindow(q)],
                0)

\* the throw of search
SearchFail(call, err) == [call EXCEPT !.pc = "failed", !.err = err]

WebSearchCall(c, q) ==
    /\ ws[c].pc = "idle"
    /\ ws' = [ws EXCEPT ![c] = SearchCall(q)]
    /\ UNCHANGED <<now, searchCache, lastOk, decideVars, hs, clientVars, ragVars, initVars, rq>>

\* 2xx with a body that decodes: parse, cache, return
WebFetchOk(c, data) ==
    /\ ws[c].pc = "fetching"
    /\ LET result == parseTavilyResponse(data, now)
       IN  /\ searchCache' = setCachedResult(ws[c].query, result)
           /\ ws' = [ws EXCEPT ![c] = [@ EXCEPT !.pc = "done", !.result = result,
                                                !.hist = Append(@, "ok")]]
    /\ lastOk' = MapSet(lastOk, NormalizedQuery(ws[c].query), now)
    /\ UNCHANGED <<now, decideVars, hs, clientVars, ragVars, initVars, rq>>

\* HTTP 429: the 5 s cooldown starts
WebFetchRateLimited(c) ==
    /\ ws[c].pc = "fetching"
    /\ ws' = [ws EXCEPT ![c] = [@ EXCEPT !.pc = "cooldown", !.hist = Append(@, "429")]]
    /\ UNCHANGED <<now, searchCache, lastOk, decideVars, hs, clientVars, ragVars, initVars, rq>>

\* the cooldown is over: retry, or throw the 429 error
WebCooldownEnd(c) ==
    /\ ws[c].pc = "cooldown"
    /\ ws' = [ws EXCEPT ![c] =
                IF RateLimitRetry(ws[c].retryCount)
                THEN SearchEnter(ws[c], ws[c].retryCount + 1)
                ELSE SearchFail(ws[c], "Web search failed: 429")]
    /\ UNCHANGED <<now, searchCache, lastOk, decideVars, hs, clientVars, ragVars, initVars, rq>>

\* the request is aborted by the timeout (AbortError): retry, or throw
WebFetchTimeout(c) ==
    /\ ws[c].pc = "fetching"
    /\ LET call == [ws[c] EXCEPT !.hist = Append(@, "timeout")]
       IN  ws' = [ws EXCEPT ![c] =
                    IF TimeoutRetry(call.retryCount)
                    THEN SearchEnter(call, call.retryCount + 1)
                    ELSE SearchFail(call, "Web search timed out. Please try again.")]
    /\ UNCHANGED <<now, searchCache, lastOk, decideVars, hs, clientVars, ragVars, initVars, rq>>

\* another non-2xx status, a body that does not decode, a network error
FetchErrors ==
    { "Web search failed: 500", "No results from web search", "fetch failed" }

WebFetchError(c, err) ==
    /\ ws[c].pc = "fetching"
    /\ ws' = [ws EXCEPT ![c] = SearchFail([@ EXCEPT !.hist = Append(@, "error")], err)]
    /\ UNCHANGED <<now, searchCache, lastOk, decideVars, hs, clientVars, ragVars, initVars, rq>>

\* the caller takes the result (or the error) of its search
WebSearchReturn(c) ==
    /\ ws[c].pc \in {"done", "failed"}
    /\ ws' = [ws EXCEPT ![c] = WsIdle]
    /\ UNCHANGED <<now, searchCache, lastOk, decideVars, hs, clientVars, ragVars, initVars, rq>>

\* time passes
Tick ==
    /\ now < MaxTime
    /\ now' = now + 1
    /\ UNCHANGED <<searchCache, ws, lastOk, decideVars, hs, clientVars, ragVars, initVars, rq>>

-----------------------------------------------------------------------------
(* AIAgent.advancedHeuristicDecision  (src/unnamed/part_005)                *)

webSearchIndicators ==
    [strong |-> {"latest", "current", "today", "yesterday", "tomorrow", "breaking",
                 "trending", "live", "real-time", "now", "recent", "update"},
     medium |-> {"news", "2023", "2024", "2025", "2026", "price", "weather",
                 "stock", "market"},
     weak   |-> {"compare", "versus", "vs", "difference", "best", "top"}]

ragIndicators ==
    [strong |-> {"authrix", "fueldev", "grenish", "detoxify", "ai cookbook",
                 "our system", "our documentation", "internal"},
     medium |-> {"documentation", "guide", "tutorial", "api", "configuration",
                 "setup", "installation"},
     weak   |-> {"explain", "describe", "what is", "how to", "define"}]

\* indicators.filter((k) => lower.includes(k)).length
Matches(lower, indicators) == Cardinality({k \in indicators : includes(lower, k)})

\* /\b20\d{2}\b/
YearTokens == {"2019", "2023", "2024", "2025", "2026", "2030"}
HasYear(lower) == \E i \in 1..Len(lower) : lower[i] \in YearTokens

\* /^(what|who|when|where|why|how)\s+(is|are|was|were|has|have)\s+(the\s+)?(latest|current|recent)/
QuestionPattern(lower) ==
    /\ Len(lower) >= 3
    /\ lower[1] \in {"what", "who", "when", "where", "why", "how"}
    /\ lower[2] \in {"is", "are", "was", "were", "has", "have"}
    /\ \/ lower[3] \in {"latest", "current", "recent"}
       \/ Len(lower) >= 4 /\ lower[3] = "the"
                          /\ lower[4] \in {"latest", "current", "recent"}

webScoreOf(lower) ==
      Matches(lower, webSearchIndicators.strong) * 3
    + Matches(lower, webSearchIndicators.medium) * 2
    + Matches(lower, webSearchIndicators.weak)
    + (IF HasYear(lower) THEN 4 ELSE 0)
    + (IF QuestionPattern(lower) THEN 3 ELSE 0)

ragScoreOf(lower) ==
      Matches(lower, ragIndicators.strong) * 3
    + Matches(lower, ragIndicators.medium) * 2
    + Matches(lower, ragIndicators.weak)


\* faulty variant: the margin is inclusive
WithinMarginInclusive(webScore, ragScore) == Abs(webScore - ragScore) <= 3

\* the decision on the two scores: the margin test
WithinMargin(webScore, ragScore) == Abs(webScore - ragScore) < 3

ScoreDecision(webScore, ragScore) ==
    IF webScore > 0 /\ ragScore > 0 /\ WithinMargin(webScore, ragScore) THEN "Both"
    ELSE IF webScore > ragScore THEN "WebSearch"
    ELSE IF ragScore > webScore THEN "RAG"
    ELSE "RAG"

advancedHeuristicDecision(query) ==
    LET lower == toLowerCase(query)
    IN  ScoreDecision(webScoreOf(lower), ragScoreOf(lower))

\* one evaluation of the decision on a pair of scores
HeuristicEvaluate ==
    /\ hs.pc = "scored"
    /\ hs' = [hs EXCEPT !.pc = "decided",
                        !.tool = ScoreDecision(hs.webScore, hs.ragScore)]
    /\ UNCHANGED <<webVars, decideVars, rq, ragVars, initVars, clientVars>>

-----------------------------------------------------------------------------
(* AIAgent.decideTool  (src/unnamed/part_005)                               *)

\* what ollama.generate gives the decision prompt: it throws, or it returns a
\* text in which the pattern /\{[^}]*"tool"[^}]*\}/ matches or not; the match
\* parses as JSON or not; the parsed object has some "tool" value
NoOutput == [thrown |-> FALSE, jsonMatch |-> FALSE, parses |-> FALSE, tool |-> "-"]

DecisionOutputs ==
    { [thrown |-> TRUE,  jsonMatch |-> FALSE, parses |-> FALSE, tool |-> ""],
      [thrown |-> FALSE, jsonMatch |-> FALSE, parses |-> FALSE, tool |-> ""],
      [thrown |-> FALSE, jsonMatch |-> TRUE,  parses |-> FALSE, tool |-> ""],
      [thrown |-> FALSE, jsonMatch |-> TRUE,  parses |-> TRUE,  tool |-> "rag"],
      [thrown |-> FALSE, jsonMatch |-> TRUE,  parses |-> TRUE,  tool |-> "RAG"],
      [thrown |-> FALSE, jsonMatch |-> TRUE,  parses |-> TRUE,  tool |-> "WebSearch"],
      [thrown |-> FALSE, jsonMatch |-> TRUE,  parses |-> TRUE,  tool |-> "Both"] }


\* faulty variant: the tool of the parsed object is returned unchecked
ModelDecisionUnchecked(out) ==
    IF out.thrown \/ ~out.jsonMatch \/ ~out.parses THEN "" ELSE out.tool

\* the try block: the tool the model named, or "" when the code falls through
\* to the heuristic (the catch swallows the throw of generate and of JSON.parse)
ModelDecision(out) ==
    IF out.thrown THEN ""
    ELSE IF ~out.jsonMatch THEN ""
    ELSE IF ~out.parses THEN ""
    ELSE IF out.tool \in {"RAG", "WebSearch", "Both"} THEN out.tool
    ELSE ""


\* faulty variant: the cache is keyed by the query as typed
decisionKeyRaw(query) == query

\* the key of the decision cache
decisionKey(query) == toLowerCase(query)


\* faulty variant: the cache is never consulted
decisionCacheGetNever(query) == ""

\* this.decisionCache.get(query.toLowerCase()); "" when there is none
decisionCacheGet(query) ==
    IF decisionKey(query) \in DOMAIN decisionCache
    THEN decisionCache[decisionKey(query)]
    ELSE ""

\* this.decisionCache.set(query.toLowerCase(), tool)
decisionCacheSet(query, tool) == MapSet(decisionCache, decisionKey(query), tool)

NoTool == [tool |-> "", query |-> <<>>, heuristic |-> FALSE]

\* a caller with no decideTool in flight.  generated: the call invoked the
\* generation runtime; prev: what the last finished call for the same
\* lowercased query returned; stored: that key was in the cache at the call
DcIdle ==
    [pc |-> "idle", query |-> <<>>, ret |-> "", out |-> NoOutput,
     generated |-> FALSE, prev |-> NoTool, stored |-> FALSE]

PrevTool(q) ==
    IF toLowerCase(q) \in DOMAIN lastTool THEN lastTool[toLowerCase(q)] ELSE NoTool

\* decideTool(query) up to its first await: the cache check, then generate
DecideEnter(q) ==
    LET cached == decisionCacheGet(q)
        call   == [DcIdle EXCEPT !.query = q, !.prev = PrevTool(q),
                                 !.stored = toLowerCase(q) \in DOMAIN decisionCache]
    IN  IF cached # ""
        THEN [call EXCEPT !.pc = "done", !.ret = cached]
        ELSE [call EXCEPT !.pc = "generating", !.generated = TRUE]

\* the tool decideTool returns once generate has settled with out
DecideResult(q, out) ==
    IF ModelDecision(out) # "" THEN ModelDecision(out)
    ELSE advancedHeuristicDecision(q)

\* the history of returned tools, kept when a call finishes
Returned(q, tool, heuristic) ==
    MapSet(lastTool, toLowerCase(q), [tool |-> tool, query |-> q, heuristic |-> heuristic])

DecideCall(c, q) ==
    /\ dc[c].pc = "idle"
    /\ dc' = [dc EXCEPT ![c] = DecideEnter(q)]
    /\ lastTool' = IF DecideEnter(q).pc = "done"
                   THEN Returned(q, DecideEnter(q).ret, PrevTool(q).heuristic) ELSE lastTool
    /\ UNCHANGED <<decisionCache, webVars, hs, clientVars, ragVars, initVars, rq>>

\* generate has settled: parse, or fall back to the heuristic; cache; return
DecideGenerated(c, out) ==
    /\ dc[c].pc = "generating"
    /\ LET tool == DecideResult(dc[c].query, out)
       IN  /\ decisionCache' = decisionCacheSet(dc[c].query, tool)
           /\ dc' = [dc EXCEPT ![c] = [@ EXCEPT !.pc = "done", !.ret = tool, !.out = out]]
           /\ lastTool' = Returned(dc[c].query, tool, ModelDecision(out) = "")
    /\ UNCHANGED <<webVars, hs, clientVars, ragVars, initVars, rq>>

\* the caller takes the tool
DecideReturn(c) ==
    /\ dc[c].pc = "done"
    /\ dc' = [dc EXCEPT ![c] = DcIdle]
    /\ UNCHANGED <<decisionCache, lastTool, webVars, hs, clientVars, ragVars, initVars, rq>>

\* a call made while no other call is in flight
DecideCallAlone(c, q) ==
    /\ \A d \in Callers : dc[d].pc = "idle"
    /\ DecideCall(c, q)

-----------------------------------------------------------------------------
(* RAGService.search  (src/lib/services/rag.ts)                             *)

\* a distance of the index response; scores and distances are in tenths, the
\* score of a neighbour is 1 - distance
NoDistance == [defined |-> FALSE, value |-> 0]
Distance(d) == [defined |-> TRUE, value |-> d]
NoScore == [defined |-> FALSE, value |-> 0]

\* the metadata the index holds for a document; "" is a null or empty
\* document entry
MetadataOf(document) ==
    IF document = "d1" THEN "m1" ELSE IF document = "d2" THEN "m2" ELSE "m0"

Neighbour(document, distance) ==
    [document |-> document, distance |-> distance, metadata |-> MetadataOf(document)]

Neighbours ==
    { Neighbour(document, distance) :
        document \in {"", "d1", "d2"},
        distance \in {NoDistance, Distance(1), Distance(7), Distance(8), Distance(9)} }

\* what collection.query resolves with: the neighbours, nearest first
IndexResponses ==
    UNION { [1..n -> Neighbours] : n \in 0..MaxNeighbours }

Numbers == << "[1]", "[2]", "[3]", "[4]" >>

\* the content: "[n] document" for each source, joined by "---"
RECURSIVE NumberedFrom(_, _)
NumberedFrom(sources, n) ==
    IF sources = <<>> THEN <<>>
    ELSE (IF n > 1 THEN << "---" >> ELSE <<>>)
         \o << Numbers[n], Head(sources).document >>
         \o NumberedFrom(Tail(sources), n + 1)

NoRelevantDocuments == << "No relevant documents found in local knowledge base." >>

IsDocument(document) == document # ""

\* the filter on the score
PassesThreshold(item) ==
    IF ~item.score.defined THEN TRUE
    ELSE item.score.value >= MinSimilarityScore

\* faulty variant: no sentinel for an empty result
SearchResultNoSentinel(sources) ==
    [content |-> NumberedFrom(sources, 1), sources |-> sources]

\* the return value of search() for the sources that passed the filter
SearchResult(sources) ==
    IF Len(sources) = 0
    THEN [content |-> NoRelevantDocuments, sources |-> <<>>]
    ELSE [content |-> NumberedFrom(sources, 1), sources |-> sources]

\* search() after collection.query resolved with response
ragSearch(response) ==
    LET all       == [i \in 1..Len(response) |-> response[i].document]
        documents == SelectSeq(all, IsDocument)
        distances == [i \in 1..Len(response) |-> response[i].distance]
        metadatas == [i \in 1..Len(response) |-> response[i].metadata]
        mapped    == [idx \in 1..Len(documents) |->
                        [document |-> documents[idx],
                         metadata |-> metadatas[idx],
                         score    |-> IF distances[idx].defined
                                      THEN [defined |-> TRUE,
                                            value |-> 10 - distances[idx].value]
                                      ELSE NoScore]]
        sources   == SelectSeq(mapped, PassesThreshold)
    IN  SearchResult(sources)

RsIdle == [pc |-> "idle", response |-> <<>>,
           result |-> [content |-> <<>>, sources |-> <<>>]]

\* search(query) up to the await of collection.query, which resolves
\* with response
RagSearchCall(response) ==
    /\ rs.pc = "idle"
    /\ rs' = [RsIdle EXCEPT !.pc = "querying", !.response = response]
    /\ UNCHANGED <<webVars, decideVars, hs, clientVars, rq, ingestVars, initVars>>

\* the rest of search(): filter, number, return
RagSearchReturn ==
    /\ rs.pc = "querying"
    /\ rs' = [rs EXCEPT !.pc = "done", !.result = ragSearch(rs.response)]
    /\ UNCHANGED <<webVars, decideVars, hs, clientVars, rq, ingestVars, initVars>>

\* the caller takes the result
RagSearchEnd ==
    /\ rs.pc = "done"
    /\ rs' = RsIdle
    /\ UNCHANGED <<webVars, decideVars, hs, clientVars, rq, ingestVars, initVars>>

-----------------------------------------------------------------------------
(* The values of a request body  (await req.json())                         *)

\* a field of the parsed body: its kind and, for a string or an array, its
\* items
Undefined == [type |-> "undefined", items |-> <<>>]
Null == [type |-> "null", items |-> <<>>]
Obj == [type |-> "object", items |-> <<>>]
Str(chars) == [type |-> "string", items |-> chars]
Arr(items) == [type |-> "array", items |-> items]

\* !v is false
Truthy(v) ==
    CASE v.type \in {"undefined", "null"} -> FALSE
      [] v.type = "string" -> v.items # <<>>
      [] OTHER -> TRUE

\* typeof v
TypeOf(v) == IF v.type \in {"null", "array"} THEN "object" ELSE v.type

\* Array.isArray(v)
IsArray(v) == v.type = "array"

-----------------------------------------------------------------------------
(* RAGService.addDocuments  (src/lib/services/rag.ts)                       *)

\* the batches of documents of the calls
Batches == { << "a" >>, << "a", "b" >> }

\* a caller with no addDocuments in flight.  pending: the documents whose
\* embedding is awaited; embedFailed: an embedding of the batch rejected;
\* ids: the ids of the insertion call; addCalls: the insertion calls made;
\* body, status, error: the request of the documents route that made the call
\* and its response
IngIdle ==
    [pc |-> "idle", documents |-> <<>>, pending |-> {}, embedFailed |-> FALSE,
     ids |-> <<>>, addCalls |-> 0,
     body |-> [documents |-> Undefined, metadatas |-> Undefined],
     status |-> 0, error |-> ""]

\* `doc-${Date.now()}-${idx}`
DocId(time, idx) == [time |-> time, idx |-> idx]

\* documents.map((_, idx) => ...)
DocIds(documents, time) == [i \in 1..Len(documents) |-> DocId(time, i - 1)]

\* getCachedEmbedding answers from the cache (the key is the first 100
\* characters of the text, the texts here are shorter)
EmbeddingCached(text) == text \in embedCache

\* faulty variant: the embeddings are awaited with Promise.allSettled
JointlyResolvedAllSettled(call) == call.pending = {}

\* Promise.all over the embeddings resolves
JointlyResolved(call) == call.pending = {} /\ ~call.embedFailed

\* the call after an embedding settled or after its start: the ids and the
\* insertion call once all embeddings are there; the throw when one failed
AfterEmbeddings(call) ==
    IF JointlyResolved(call)
    THEN [call EXCEPT !.pc = "adding", !.ids = DocIds(call.documents, clock),
                      !.addCalls = @ + 1]
    ELSE IF call.embedFailed THEN [call EXCEPT !.pc = "failed"]
    ELSE [call EXCEPT !.pc = "embedding"]

\* the history of ids, kept when the insertion call is made
Issue(c, call) ==
    IF call.pc = "adding" /\ ing[c].pc # "adding"
    THEN issued \o [i \in 1..Len(call.ids) |->
                      [id |-> call.ids[i], caller |-> c, text |-> call.documents[i]]]
    ELSE issued

\* addDocuments(documents) up to its first await, for the caller `from`
AddDocumentsFrom(c, from, documents) ==
    LET call == AfterEmbeddings(
                  [from EXCEPT !.documents = documents,
                               !.pending = {i \in 1..Len(documents) :
                                              ~EmbeddingCached(documents[i])}])
    IN  /\ ing' = [ing EXCEPT ![c] = call]
        /\ issued' = Issue(c, call)
        /\ UNCHANGED <<collection, embedCache, clock>>

AddDocumentsStart(c, documents) == AddDocumentsFrom(c, IngIdle, documents)

AddDocumentsCall(c, documents) ==
    /\ ing[c].pc = "idle"
    /\ Len(issued) + Len(documents) <= MaxIds
    /\ AddDocumentsStart(c, documents)
    /\ UNCHANGED <<webVars, decideVars, hs, clientVars, rq, rs, initVars>>

\* ollama.embed of document i resolves: the embedding is cached
EmbedResolves(c, i) ==
    /\ i \in ing[c].pending
    /\ embedCache' = embedCache \cup {ing[c].documents[i]}
    /\ LET call == IF ing[c].pc = "embedding"
                   THEN AfterEmbeddings([ing[c] EXCEPT !.pending = @ \ {i}])
                   ELSE [ing[c] EXCEPT !.pending = @ \ {i}]
       IN  /\ ing' = [ing EXCEPT ![c] = call]
           /\ issued' = Issue(c, call)
    /\ UNCHANGED <<collection, clock>>
    /\ UNCHANGED <<webVars, decideVars, hs, clientVars, rq, rs, initVars>>

\* ollama.embed of document i rejects: Promise.all rejects
EmbedRejects(c, i) ==
    /\ i \in ing[c].pending
    /\ LET call == IF ing[c].pc = "embedding"
                   THEN AfterEmbeddings([ing[c] EXCEPT !.pending = @ \ {i},
                                                       !.embedFailed = TRUE])
                   ELSE [ing[c] EXCEPT !.pending = @ \ {i}]
       IN  /\ ing' = [ing EXCEPT ![c] = call]
           /\ issued' = Issue(c, call)
    /\ UNCHANGED <<collection, embedCache, clock>>
    /\ UNCHANGED <<webVars, decideVars, hs, clientVars, rq, rs, initVars>>

\* collection.add resolves: the entries are stored; an id the index already
\* holds keeps its entry
AddResolves(c) ==
    /\ ing[c].pc = "adding"
    /\ collection' =
         [id \in DOMAIN collection
                 \cup {ing[c].ids[i] : i \in 1..Len(ing[c].ids)} |->
            IF id \in DOMAIN collection THEN collection[id]
            ELSE LET i == CHOOSE i \in 1..Len(ing[c].ids) : ing[c].ids[i] = id
                 IN  ing[c].documents[i]]
    /\ ing' = [ing EXCEPT ![c].pc = "done"]
    /\ UNCHANGED <<embedCache, issued, clock>>
    /\ UNCHANGED <<webVars, decideVars, hs, clientVars, rq, rs, initVars>>

\* collection.add rejects (the index is down, or it refuses an id it holds)
AddRejects(c) ==
    /\ ing[c].pc = "adding"
    /\ ing' = [ing EXCEPT ![c].pc = "failed"]
    /\ UNCHANGED <<collection, embedCache, issued, clock>>
    /\ UNCHANGED <<webVars, decideVars, hs, clientVars, rq, rs, initVars>>

\* the bodies posted to the documents route
DocumentBodies ==
    { [documents |-> d, metadatas |-> m] :
        d \in {Undefined, Str(<< "a" >>), Arr(<< "a" >>)},
        m \in {Undefined, Str(<<>>), Obj, Arr(<< "m" >>), Arr(<< "m", "m" >>)} }

\* faulty variant: the lengths of the two arrays are not compared
DocumentsErrorNoLength(body) ==
    IF ~Truthy(body.documents) \/ ~IsArray(body.documents)
    THEN "Missing or invalid 'documents' array"
    ELSE IF Truthy(body.metadatas) /\ ~IsArray(body.metadatas)
    THEN "'metadatas' must be an array if provided"
    ELSE ""

\* the validation of the documents route: the message of the 400 response,
\* "" when the body passes
DocumentsError(body) ==
    IF ~Truthy(body.documents) \/ ~IsArray(body.documents)
    THEN "Missing or invalid 'documents' array"
    ELSE IF Truthy(body.metadatas) /\ ~IsArray(body.metadatas)
    THEN "'metadatas' must be an array if provided"
    ELSE IF Truthy(body.metadatas)
            /\ Len(body.metadatas.items) # Len(body.documents.items)
    THEN "metadatas length must match documents length"
    ELSE ""

\* POST of the documents route up to its first await: the 400 response, or
\* getRagService (its instance is there) and addDocuments
DocumentsPost(c, body) ==
    /\ ing[c].pc = "idle"
    /\ ga[c].pc = "idle"
    /\ IF DocumentsError(body) # ""
       THEN /\ ing' = [ing EXCEPT ![c] =
                         [IngIdle EXCEPT !.pc = "rejected", !.body = body,
                                         !.status = 400,
                                         !.error = DocumentsError(body)]]
            /\ UNCHANGED <<collection, embedCache, issued, clock>>
       ELSE /\ Len(issued) + Len(body.documents.items) <= MaxIds
            /\ AddDocumentsFrom(c, [IngIdle EXCEPT !.body = body],
                                body.documents.items)
    /\ UNCHANGED <<webVars, decideVars, hs, clientVars, rq, rs, initVars>>

\* the request is one of the documents route
Posted(call) == call.pc = "rejected" \/ IsArray(call.body.documents)

\* the response of the documents route is taken
DocumentsReturn(c) ==
    /\ ing[c].pc \in {"rejected", "done", "failed"}
    /\ Posted(ing[c])
    /\ ing[c].pending = {}
    /\ ing' = [ing EXCEPT ![c] = IngIdle]
    /\ UNCHANGED <<collection, embedCache, issued, clock>>
    /\ UNCHANGED <<webVars, decideVars, hs, clientVars, rq, rs, initVars>>

\* the caller takes the outcome
AddDocumentsReturn(c) ==
    /\ ing[c].pc \in {"done", "failed"}
    /\ ing[c].pending = {}
    /\ ing' = [ing EXCEPT ![c] = IngIdle]
    /\ UNCHANGED <<collection, embedCache, issued, clock>>
    /\ UNCHANGED <<webVars, decideVars, hs, clientVars, rq, rs, initVars>>

\* a millisecond passes
TickMs ==
    /\ clock < MaxClock
    /\ clock' = clock + 1
    /\ UNCHANGED <<collection, embedCache, issued, ing>>
    /\ UNCHANGED <<webVars, decideVars, hs, clientVars, rq, rs, initVars>>

-----------------------------------------------------------------------------
(* getAgent and the status probe  (src/app/api/agent/route.ts)              *)

\* the documents of public/data.json
DefaultDocuments == << "a" >>

IndexErrors == {"Failed to connect to chromadb"}
KeyError == "Tavily API key is required for web search"

\* a caller with no request of the agent route in getAgent.  kind: GET or
\* POST; errorAtCall: initError when getAgent was entered; initialized: this
\* call entered the initialization; status, error, ragDocuments,
\* webSearchEnabled: the response; body: the body of a POST
GaIdle ==
    [pc |-> "idle", kind |-> "", errorAtCall |-> "", initialized |-> FALSE,
     status |-> 0, error |-> "", ragDocuments |-> 0, webSearchEnabled |-> FALSE,
     body |-> [query |-> Undefined]]

\* the catch block of the handler: the 500 response with the message
Respond500(call, msg) ==
    [call EXCEPT !.pc = "responded", !.status = 500, !.error = msg]

\* the handler once getAgent() returned the agent: GET awaits the document
\* count, POST goes on to answer the query
AgentObtained(call) ==
    IF call.kind = "GET" THEN [call EXCEPT !.pc = "probe_count"]
    ELSE [call EXCEPT !.pc = "serving"]

\* faulty variant: getAgent does not look at initError
GetAgentEnterNoCapture(call) ==
    IF agentInstance THEN AgentObtained(call)
    ELSE [call EXCEPT !.pc = "initializing", !.initialized = TRUE]

\* getAgent() up to its first await
GetAgentEnter(call) ==
    IF initError # "" THEN Respond500(call, initError)
    ELSE IF agentInstance THEN AgentObtained(call)
    ELSE [call EXCEPT !.pc = "initializing", !.initialized = TRUE]

\* GET /api/agent or POST /api/agent with a valid body
AgentRequest(c, kind) ==
    /\ ga[c].pc = "idle"
    /\ ing[c].pc = "idle"
    /\ ga' = [ga EXCEPT ![c] =
                GetAgentEnter([GaIdle EXCEPT !.kind = kind, !.errorAtCall = initError])]
    /\ UNCHANGED <<agentInstance, initError, apiKey>>
    /\ UNCHANGED <<webVars, decideVars, hs, clientVars, rq, ragVars>>

\* the bodies posted to the agent route
PostBodies ==
    { [query |-> v] :
        v \in {Undefined, Null, Str(<<>>), Obj, Arr(<< "a" >>), Str(<< "a" >>)} }

\* the validation of the agent route: the message of the 400 response, ""
\* when the body passes
QueryError(body) ==
    IF ~Truthy(body.query) \/ TypeOf(body.query) # "string"
    THEN "Missing or invalid 'query' field" ELSE ""

\* POST of the agent route up to its first await: the 400 response, or
\* getAgent
AgentPost(c, body) ==
    /\ ga[c].pc = "idle"
    /\ ing[c].pc = "idle"
    /\ ga' = [ga EXCEPT ![c] =
                IF QueryError(body) # ""
                THEN [GaIdle EXCEPT !.pc = "responded", !.kind = "POST",
                                    !.body = body, !.status = 400,
                                    !.error = QueryError(body)]
                ELSE GetAgentEnter([GaIdle EXCEPT !.kind = "POST", !.body = body,
                                                  !.errorAtCall = initError])]
    /\ UNCHANGED <<agentInstance, initError, apiKey>>
    /\ UNCHANGED <<webVars, decideVars, hs, clientVars, rq, ragVars>>

\* the catch block of getAgent: the error is captured and rethrown
InitFails(c, msg) ==
    /\ initError' = msg
    /\ ga' = [ga EXCEPT ![c] = Respond500(ga[c], msg)]
    /\ UNCHANGED <<agentInstance, apiKey>>

\* the end of the try block of getAgent: the WebSearchService constructor
\* throws without a key; otherwise the agent is built and stored
InitFinishes(c) ==
    IF ~apiKey THEN InitFails(c, KeyError)
    ELSE /\ agentInstance' = TRUE
         /\ ga' = [ga EXCEPT ![c] = AgentObtained(ga[c])]
         /\ UNCHANGED <<initError, apiKey>>

\* rag.initialize() resolves: getCollectionCount is awaited
RagInitializeResolves(c) ==
    /\ ga[c].pc = "initializing"
    /\ ga' = [ga EXCEPT ![c].pc = "counting"]
    /\ UNCHANGED <<agentInstance, initError, apiKey>>
    /\ UNCHANGED <<webVars, decideVars, hs, clientVars, rq, ragVars>>

\* rag.initialize() rejects: getCollection and createCollection both failed
RagInitializeRejects(c, msg) ==
    /\ ga[c].pc = "initializing"
    /\ InitFails(c, msg)
    /\ UNCHANGED <<webVars, decideVars, hs, clientVars, rq, ragVars>>

\* getCollectionCount() resolves: an empty collection is loaded from
\* data.json when the file can be read (readable), else the try block ends
CollectionCountResolves(c, readable) ==
    /\ ga[c].pc = "counting"
    /\ IF Cardinality(DOMAIN collection) = 0 /\ readable
       THEN /\ ga' = [ga EXCEPT ![c].pc = "loading"]
            /\ AddDocumentsStart(c, DefaultDocuments)
            /\ UNCHANGED <<agentInstance, initError, apiKey, rs>>
       ELSE /\ InitFinishes(c)
            /\ UNCHANGED ragVars
    /\ UNCHANGED <<webVars, decideVars, hs, clientVars, rq>>

\* getCollectionCount() rejects
CollectionCountRejects(c, msg) ==
    /\ ga[c].pc = "counting"
    /\ InitFails(c, msg)
    /\ UNCHANGED <<webVars, decideVars, hs, clientVars, rq, ragVars>>

\* addDocuments of the default documents has settled; its error is only
\* logged
DefaultLoadSettled(c) ==
    /\ ga[c].pc = "loading"
    /\ ing[c].pc \in {"done", "failed"}
    /\ ing[c].pending = {}
    /\ ing' = [ing EXCEPT ![c] = IngIdle]
    /\ InitFinishes(c)
    /\ UNCHANGED <<collection, embedCache, issued, clock, rs>>
    /\ UNCHANGED <<webVars, decideVars, hs, clientVars, rq>>

\* GET: getCollectionCount() resolves, the status is returned
ProbeCountResolves(c) ==
    /\ ga[c].pc = "probe_count"
    /\ ga' = [ga EXCEPT ![c] =
                [@ EXCEPT !.pc = "responded", !.status = 200,
                          !.ragDocuments = Cardinality(DOMAIN collection),
                          !.webSearchEnabled = apiKey]]
    /\ UNCHANGED <<agentInstance, initError, apiKey>>
    /\ UNCHANGED <<webVars, decideVars, hs, clientVars, rq, ragVars>>

\* GET: getCollectionCount() rejects
ProbeCountRejects(c, msg) ==
    /\ ga[c].pc = "probe_count"
    /\ ga' = [ga EXCEPT ![c] = Respond500(ga[c], msg)]
    /\ UNCHANGED <<agentInstance, initError, apiKey>>
    /\ UNCHANGED <<webVars, decideVars, hs, clientVars, rq, ragVars>>

\* the request is over: the response of the probe, of the failed request,
\* or of the POST that the agent served
AgentRequestEnd(c) ==
    /\ ga[c].pc \in {"responded", "serving"}
    /\ ga' = [ga EXCEPT ![c] = GaIdle]
    /\ UNCHANGED <<agentInstance, initError, apiKey>>
    /\ UNCHANGED <<webVars, decideVars, hs, clientVars, rq, ragVars>>

-----------------------------------------------------------------------------
(* OllamaService.generate and embed  (src/lib/services/ollama.ts)           *)

\* the constructor's timeouts, in minutes; the fields are assigned and not
\* read by generate or embed
generationTimeout == 3
embeddingTimeout == 2

\* what a call of the client library can reject with
TransportErrors == {"fetch failed", "model not found"}

\* the message generate / embed wraps an error of the client library in
WrappedError(kind, msg) ==
    IF kind = "generate" THEN << "Ollama generation failed: ", msg >>
    ELSE << "Ollama embedding failed: ", msg >>

\* a caller with no call of the generation client in flight.  elapsed: the
\* minutes since the call was made
OcIdle == [pc |-> "idle", kind |-> "", elapsed |-> 0, err |-> <<>>]

\* generate(model, prompt) or embed(text, model) up to the await of the
\* client library's request
ClientCall(c, kind) ==
    /\ oc[c].pc = "idle"
    /\ oc' = [oc EXCEPT ![c] = [OcIdle EXCEPT !.pc = "pending", !.kind = kind]]
    /\ UNCHANGED <<webVars, decideVars, hs, rq, ragVars, initVars, rd>>

\* the runtime answers: the text or the embedding is returned
ClientResolves(c) ==
    /\ oc[c].pc = "pending"
    /\ oc' = [oc EXCEPT ![c].pc = "done"]
    /\ UNCHANGED <<webVars, decideVars, hs, rq, ragVars, initVars, rd>>

\* the request of the client library rejects: the catch wraps the error
ClientRejects(c, msg) ==
    /\ oc[c].pc = "pending"
    /\ oc' = [oc EXCEPT ![c] = [@ EXCEPT !.pc = "failed",
                                         !.err = WrappedError(oc[c].kind, msg)]]
    /\ UNCHANGED <<webVars, decideVars, hs, rq, ragVars, initVars, rd>>

\* the caller takes the outcome
ClientReturn(c) ==
    /\ oc[c].pc \in {"done", "failed"}
    /\ oc' = [oc EXCEPT ![c] = OcIdle]
    /\ UNCHANGED <<webVars, decideVars, hs, rq, ragVars, initVars, rd>>

\* a minute passes for the calls in flight
ClientTick ==
    /\ \E c \in Callers : oc[c].pc = "pending"
    /\ \A c \in Callers : oc[c].elapsed < MaxWait
    /\ oc' = [c \in Callers |->
                IF oc[c].pc = "pending" THEN [oc[c] EXCEPT !.elapsed = @ + 1]
                ELSE oc[c]]
    /\ UNCHANGED <<webVars, decideVars, hs, rq, ragVars, initVars, rd>>

-----------------------------------------------------------------------------
(* the client's stream reader  (src/lib/hooks/use-agent.ts)                 *)

\* the text of one frame as the route encodes it, in pieces that a read
\* chunk can end between: "event: <type>\ndata: {<payload>}\n\n"
Frame(type, payload) ==
    << "event: ", type, "\n", "data: ", "{", payload, "}", "\n", "\n" >>

\* the streams the route sends: an answer in two chunks, and an answer
\* that fails after its first chunk
ServerStreams ==
    { Frame("tool", "RAG") \o Frame("message", "a") \o Frame("message", "b")
        \o Frame("done", "true"),
      Frame("tool", "RAG") \o Frame("message", "a") \o Frame("error", "boom") }

\* chunk.split("\n"): cur is the line being collected
RECURSIVE SplitLines(_, _)
SplitLines(chunk, cur) ==
    IF chunk = <<>> THEN << cur >>
    ELSE IF Head(chunk) = "\n" THEN << cur >> \o SplitLines(Tail(chunk), <<>>)
    ELSE SplitLines(Tail(chunk), Append(cur, Head(chunk)))

\* JSON.parse(data) succeeds on a complete object only
Parses(data) == Len(data) = 3 /\ data[1] = "{" /\ data[3] = "}"

\* the reader before its first read.  delivered: the contents handed to
\* onChunk; completed: the calls of onComplete; failed: the catch block ran
\* (onError called, the error rethrown)
RdIdle ==
    [pc |-> "idle", stream |-> <<>>, rest |-> <<>>, reads |-> 0,
     currentEventType |-> "", tool |-> "", delivered |-> <<>>,
     completed |-> 0, failed |-> FALSE]

\* the body of the for loop for one line
ProcessLine(st, line) ==
    IF line = <<>> THEN st
    ELSE IF Head(line) = "event: "
    THEN [st EXCEPT !.currentEventType = IF Len(line) >= 2 THEN line[2] ELSE ""]
    ELSE IF Head(line) = "data: "
    THEN LET data == Tail(line)
         IN  IF data = <<>> \/ ~Parses(data) THEN st
             ELSE IF st.currentEventType = "tool" THEN [st EXCEPT !.tool = data[2]]
             ELSE IF st.currentEventType = "message"
             THEN [st EXCEPT !.delivered = Append(@, data[2])]
             ELSE IF st.currentEventType = "done" /\ st.tool # ""
             THEN [st EXCEPT !.completed = @ + 1]
             ELSE st
    ELSE st

RECURSIVE ProcessLines(_, _)
ProcessLines(st, lines) ==
    IF lines = <<>> THEN st
    ELSE ProcessLines(ProcessLine(st, Head(lines)), Tail(lines))

\* sendAgentQuery: the response has arrived, the reader is taken
ReaderOpen(stream) ==
    /\ rd.pc = "idle"
    /\ rd' = [RdIdle EXCEPT !.pc = "reading", !.stream = stream, !.rest = stream]
    /\ UNCHANGED <<webVars, decideVars, hs, rq, ragVars, initVars, oc>>

\* reader.read() resolves with the next n pieces of the stream: decode,
\* split, and the for loop over the lines
ReaderRead(n) ==
    /\ rd.pc = "reading"
    /\ n \in 1..Len(rd.rest)
    /\ rd' = [ProcessLines(rd, SplitLines(SubSeq(rd.rest, 1, n), <<>>))
                EXCEPT !.rest = SubSeq(rd.rest, n + 1, Len(rd.rest)),
                       !.reads = @ + 1]
    /\ UNCHANGED <<webVars, decideVars, hs, rq, ragVars, initVars, oc>>

\* reader.read() resolves with done: the loop ends, the finally block runs
ReaderDone ==
    /\ rd.pc = "reading"
    /\ rd.rest = <<>>
    /\ rd' = [rd EXCEPT !.pc = "finished"]
    /\ UNCHANGED <<webVars, decideVars, hs, rq, ragVars, initVars, oc>>

\* reader.read() rejects (the connection broke): the catch block
ReaderFails ==
    /\ rd.pc = "reading"
    /\ rd' = [rd EXCEPT !.pc = "finished", !.failed = TRUE]
    /\ UNCHANGED <<webVars, decideVars, hs, rq, ragVars, initVars, oc>>

\* the next query
ReaderReset ==
    /\ rd.pc = "finished"
    /\ rd' = RdIdle
    /\ UNCHANGED <<webVars, decideVars, hs, rq, ragVars, initVars, oc>>

-----------------------------------------------------------------------------
(* AIAgent.answer (src/unnamed/part_005) under POST /api/agent              *)
(* (src/app/api/agent/route.ts)                                             *)

\* what RAGService.search resolves with
NoRag == [content |-> <<>>, sources |-> <<>>]
\* the index responses of the requests: an empty collection, a neighbour
\* below the threshold, a neighbour above it
AgentIndexResponses ==
    { <<>>,
      << Neighbour("d2", Distance(9)) >>,
      << Neighbour("d1", Distance(1)) >> }

RagResults == { ragSearch(response) : response \in AgentIndexResponses }

\* what the final ollama.generate resolves with; "ANSWER:" is the label the
\* model may echo, the other elements are characters
GenTexts == { << "ANSWER:", "a", "b", "c", "d" >>, << "a", "b" >>, <<>> }

AnswerLabels == {"COMPREHENSIVE ANSWER:", "RESPONSE:", "ANSWER:"}

postProcessAnswer(answer) ==
    trim(IF answer # <<>> /\ Head(answer) \in AnswerLabels THEN Tail(answer) ELSE answer)

NoAnswer == [answer |-> <<>>, tool |-> "", ragResult |-> NoRag,
             webResult |-> NoResult, sources |-> <<>>]

\* one settled (or not yet settled) element of Promise.allSettled
NoRagRes == [status |-> "none", value |-> NoRag]
NoWebRes == [status |-> "none", value |-> NoResult]

\* a request slot with no request.  frames: what controller.enqueue accepted;
\* cancelled: the client cancelled the stream, so the controller is closed
\* and enqueue throws; order: the order in which the two searches settled;
\* ragSearch, webSearch: how rag.search and webSearch.search themselves ended
RqIdle ==
    [pc |-> "idle", stream |-> FALSE, webOnly |-> FALSE, query |-> <<>>,
     cancelled |-> FALSE,
     frames |-> <<>>, routeTool |-> "", tool |-> "",
     ragRes |-> NoRagRes, webRes |-> NoWebRes, order |-> <<>>,
     ragSearch |-> "none", webSearch |-> "none", index |-> <<>>,
     context |-> <<>>, contextSource |-> "", sources |-> <<>>,
     ragResult |-> NoRag, webResult |-> NoResult,
     gen |-> "none", answer |-> "none", result |-> NoAnswer,
     sent |-> 0, status |-> 0, err |-> ""]

\* controller.enqueue throws once the stream is closed; the progress callback
\* of the route is an enqueue, a non-streaming request passes no callback
EnqueueThrows(req) == req.stream /\ req.cancelled

Emit(req, kinds) == [req EXCEPT !.frames = @ \o kinds]

\* faulty variant: the catch block enqueues the error frame and goes on
RouteCatchNoClose(req, msg) ==
    IF req.stream
    THEN IF req.cancelled
         THEN [req EXCEPT !.pc = "aborted", !.err = msg]
         ELSE [Emit(req, << "error" >>) EXCEPT !.err = msg]
    ELSE [req EXCEPT !.pc = "responded", !.status = 500, !.err = msg]

\* the catch blocks of POST: an error frame and close (which throws again on
\* a closed controller, leaving start() rejected), or the 500 response
RouteCatch(req, msg) ==
    IF req.stream
    THEN IF req.cancelled
         THEN [req EXCEPT !.pc = "aborted", !.err = msg]
         ELSE [Emit(req, << "error" >>) EXCEPT !.pc = "closed", !.err = msg]
    ELSE [req EXCEPT !.pc = "responded", !.status = 500, !.err = msg]

\* answer() rejects: the error reaches the route
AnswerReject(req, msg) == RouteCatch([req EXCEPT !.answer = "rejected"], msg)

RagSource(s) ==
    [type |-> "rag", title |-> "", url |-> "", content |-> s.document, score |-> s.score]
WebSource(s) ==
    [type |-> "web", title |-> s.title, url |-> s.url, content |-> s.content,
     score |-> s.score]

RagSources(result) == [i \in 1..Len(result.sources) |-> RagSource(result.sources[i])]
WebSources(result) == [i \in 1..Len(result.sources) |-> WebSource(result.sources[i])]


\* faulty variant: no failure notice in place of a failed backend
SettledContentNoNotice(res, notice) == res.value.content

\* the section of a backend in the merged context
SettledContent(res, notice) ==
    IF res.status = "fulfilled" THEN res.value.content ELSE << notice >>

Settled(res) == res.status \in {"fulfilled", "rejected"}


\* faulty variant: Promise.all in place of Promise.allSettled, the first rejection
\* ends the wait
AllSettledFailFast(req) ==
    \/ Settled(req.ragRes) /\ Settled(req.webRes)
    \/ req.ragRes.status = "rejected"
    \/ req.webRes.status = "rejected"

\* Promise.allSettled resolves
AllSettled(req) == Settled(req.ragRes) /\ Settled(req.webRes)

\* the progress callback "Generating AI response", then the final generate
StartGeneration(req) ==
    IF EnqueueThrows(req)
    THEN AnswerReject(req, "Invalid state: Controller is already closed")
    ELSE [Emit(req, IF req.stream THEN << "progress" >> ELSE <<>>)
            EXCEPT !.pc = "generating", !.gen = "running"]

\* Both: sources, results and context from the two settled searches
MergeContext(req) ==
    [req EXCEPT
       !.ragResult = IF req.ragRes.status = "fulfilled" THEN req.ragRes.value ELSE NoRag,
       !.webResult = IF req.webRes.status = "fulfilled" THEN req.webRes.value ELSE NoResult,
       !.sources =
           (IF req.ragRes.status = "fulfilled" THEN RagSources(req.ragRes.value) ELSE <<>>)
        \o (IF req.webRes.status = "fulfilled" THEN WebSources(req.webRes.value) ELSE <<>>),
       !.context =    << "**Local Knowledge Base:**" >>
                   \o SettledContent(req.ragRes, "RAG search failed.")
                   \o << "**Web Search Results:**" >>
                   \o SettledContent(req.webRes, "Web search failed."),
       !.contextSource = "both local knowledge and web search"]


\* faulty variant: answer() throws when both searches failed
MergeThrowOnTotalFailure(req) ==
    IF req.ragRes.status = "rejected" /\ req.webRes.status = "rejected"
    THEN AnswerReject(req, "All searches failed")
    ELSE StartGeneration(MergeContext(req))

Merge(req) == StartGeneration(MergeContext(req))

\* Both: one search has settled; answer() goes on once both have
AfterSettle(req) == IF AllSettled(req) THEN Merge(req) ELSE req

ClosedMsg == "Invalid state: Controller is already closed"
Progress(req, n) == Emit(req, IF req.stream THEN [i \in 1..n |-> "progress"] ELSE <<>>)

\* answer() from the tool decision to the first await of the retrieval: the
\* progress callbacks, and the start of the search or of both searches
StartRetrieval(req0, tool) ==
    LET req == [req0 EXCEPT !.tool = tool]
    IN  IF EnqueueThrows(req) THEN AnswerReject(req, ClosedMsg)
        ELSE IF tool = "Both"
        THEN [Progress(req, 3) EXCEPT !.pc = "both_wait",
                                       !.ragRes.status = "pending",
                                       !.webRes.status = "pending"]
        ELSE IF tool = "RAG"
        THEN [Progress(req, 1) EXCEPT !.pc = "rag_wait", !.ragRes.status = "pending"]
        ELSE [Progress(req, 1) EXCEPT !.pc = "web_wait", !.webRes.status = "pending"]

\* answer() up to its first await: decideTool, and on a cache hit the
\* retrieval start as well
AnswerBegin(req, q) ==
    LET enter == DecideEnter(q)
    IN  IF enter.pc = "done"
        THEN [req |-> StartRetrieval(req, enter.ret), dcr |-> DcIdle,
              last |-> Returned(q, enter.ret, PrevTool(q).heuristic)]
        ELSE [req |-> [req EXCEPT !.pc = "answer_decide"], dcr |-> enter,
              last |-> lastTool]

\* the web search of the request, started when the step started one
WsStarted(r, req) ==
    IF req.pc \in {"both_wait", "web_wait"} /\ rq[r].webRes.status = "none"
    THEN [ws EXCEPT ![r] = SearchCall(req.query)]
    ELSE ws

Free(r) == rq[r].pc = "idle" /\ dc[r].pc = "idle" /\ ws[r].pc = "idle"

\* POST {query, stream: true}: start() up to the await of decideTool
PostStream(r, q) ==
    /\ Free(r)
    /\ rq' = [rq EXCEPT ![r] = [RqIdle EXCEPT !.pc = "route_decide", !.stream = TRUE,
                                              !.query = q, !.frames = << "progress" >>]]
    /\ dc' = [dc EXCEPT ![r] = DecideEnter(q)]
    /\ lastTool' = IF DecideEnter(q).pc = "done"
                   THEN Returned(q, DecideEnter(q).ret, PrevTool(q).heuristic) ELSE lastTool
    /\ UNCHANGED <<decisionCache, webVars, hs, clientVars, ragVars, initVars>>

\* start() after decideTool: the tool frame, then agent.answer() up to its
\* first await
RouteToolDecided(r) ==
    /\ rq[r].pc = "route_decide"
    /\ dc[r].pc = "done"
    /\ IF EnqueueThrows(rq[r])
       THEN /\ rq' = [rq EXCEPT ![r] = RouteCatch(rq[r], ClosedMsg)]
            /\ dc' = [dc EXCEPT ![r] = DcIdle]
            /\ UNCHANGED <<lastTool, ws>>
       ELSE LET req == [Emit(rq[r], << "tool", "progress" >>)
                          EXCEPT !.routeTool = dc[r].ret]
                b   == AnswerBegin(req, req.query)
            IN  /\ rq' = [rq EXCEPT ![r] = b.req]
                /\ dc' = [dc EXCEPT ![r] = b.dcr]
                /\ lastTool' = b.last
                /\ ws' = WsStarted(r, b.req)
    /\ UNCHANGED <<decisionCache, now, searchCache, lastOk, hs, clientVars, ragVars, initVars>>

\* POST {query} without stream: agent.answer(query) up to its first await
PostJson(r, q) ==
    /\ Free(r)
    /\ LET b == AnswerBegin([RqIdle EXCEPT !.query = q], q)
       IN  /\ rq' = [rq EXCEPT ![r] = b.req]
           /\ dc' = [dc EXCEPT ![r] = b.dcr]
           /\ lastTool' = b.last
           /\ ws' = WsStarted(r, b.req)
    /\ UNCHANGED <<decisionCache, now, searchCache, lastOk, hs, clientVars, ragVars, initVars>>

\* answer() after its own decideTool had to ask the model
AnswerToolDecided(r) ==
    /\ rq[r].pc = "answer_decide"
    /\ dc[r].pc = "done"
    /\ LET req == StartRetrieval(rq[r], dc[r].ret)
       IN  /\ rq' = [rq EXCEPT ![r] = req]
           /\ ws' = WsStarted(r, req)
    /\ dc' = [dc EXCEPT ![r] = DcIdle]
    /\ UNCHANGED <<decisionCache, lastTool, now, searchCache, lastOk, hs, clientVars, ragVars, initVars>>

\* the context of a single-backend answer, then the final generation
SingleContext(req, content, sources, source) ==
    StartGeneration([Progress(req, 1) EXCEPT !.context = content,
                                             !.contextSource = source,
                                             !.sources = sources])

\* rag.search resolves, the index having answered with response
RagSearchResolves(r, response) ==
    /\ rq[r].ragRes.status = "pending"
    /\ LET res == ragSearch(response)
           req == [rq[r] EXCEPT !.ragSearch = "ok", !.order = Append(@, "rag"),
                                !.index = response]
       IN  rq' = [rq EXCEPT ![r] =
             IF req.tool = "Both"
             THEN AfterSettle(
                    IF EnqueueThrows(req)
                    THEN [req EXCEPT !.ragRes.status = "rejected"]
                    ELSE [Progress(req, 1) EXCEPT !.ragRes =
                            [status |-> "fulfilled", value |-> res]])
             ELSE IF EnqueueThrows(req)
             THEN AnswerReject([req EXCEPT !.ragRes.status = "rejected"], ClosedMsg)
             ELSE SingleContext([req EXCEPT !.ragRes = [status |-> "fulfilled", value |-> res],
                                            !.ragResult = res],
                                res.content, RagSources(res), "local knowledge base")]
    /\ UNCHANGED <<webVars, decideVars, hs, clientVars, ragVars, initVars>>

\* rag.search rejects (the embedding or the index query failed)
RagSearchRejects(r) ==
    /\ rq[r].ragRes.status = "pending"
    /\ LET req == [rq[r] EXCEPT !.ragSearch = "failed", !.order = Append(@, "rag"),
                                !.ragRes.status = "rejected"]
       IN  rq' = [rq EXCEPT ![r] =
             IF req.tool = "Both" THEN AfterSettle(req)
             ELSE AnswerReject(req, "RAG search failed")]
    /\ UNCHANGED <<webVars, decideVars, hs, clientVars, ragVars, initVars>>

\* webSearch.search of the request has resolved or rejected
WebSearchSettled(r) ==
    /\ rq[r].webRes.status = "pending"
    /\ ws[r].pc \in {"done", "failed"}
    /\ LET ok  == ws[r].pc = "done"
           res == ws[r].result
           req == [rq[r] EXCEPT !.webSearch = IF ok THEN "ok" ELSE "failed",
                                !.order = Append(@, "web")]
           rej == [req EXCEPT !.webRes.status = "rejected"]
           ful == [req EXCEPT !.webRes = [status |-> "fulfilled", value |-> res]]
       IN  rq' = [rq EXCEPT ![r] =
             IF req.tool = "Both"
             THEN AfterSettle(IF ok /\ ~EnqueueThrows(req) THEN Progress(ful, 1) ELSE rej)
             ELSE IF ~ok THEN AnswerReject(rej, ws[r].err)
             ELSE IF EnqueueThrows(req) THEN AnswerReject(rej, ClosedMsg)
             ELSE SingleContext([ful EXCEPT !.webResult = res],
                                res.content, WebSources(res), "web search")]
    /\ ws' = [ws EXCEPT ![r] = WsIdle]
    /\ UNCHANGED <<now, searchCache, lastOk, decideVars, hs, clientVars, ragVars, initVars>>

\* the AgentAnswer that answer() returns
AgentAnswer(req, text) ==
    [answer |-> postProcessAnswer(text), tool |-> req.tool,
     ragResult |-> req.ragResult, webResult |-> req.webResult,
     sources |-> req.sources]

\* faulty variant: the sources frame is enqueued after the first chunk
AfterAnswerSourcesLate(req) ==
    IF ~req.stream THEN [req EXCEPT !.pc = "responded", !.status = 200]
    ELSE IF EnqueueThrows(req) THEN RouteCatch(req, ClosedMsg)
    ELSE [Emit(req, << "progress", "message", "sources" >>)
            EXCEPT !.pc = "streaming",
                   !.sent = Min(chunkSize, Len(req.result.answer))]

\* the route after agent.answer() returned: the JSON response, or the
\* sources frame, a progress frame and the first chunk of the answer
AfterAnswer(req) ==
    IF ~req.stream THEN [req EXCEPT !.pc = "responded", !.status = 200]
    ELSE IF EnqueueThrows(req) THEN RouteCatch(req, ClosedMsg)
    ELSE LET head == (IF Len(req.result.sources) > 0 THEN << "sources" >> ELSE <<>>)
                     \o << "progress" >>
         IN  IF Len(req.result.answer) > 0
             THEN [Emit(req, head \o << "message" >>)
                     EXCEPT !.pc = "streaming",
                            !.sent = Min(chunkSize, Len(req.result.answer))]
             ELSE [Emit(req, head \o << "done" >>) EXCEPT !.pc = "closed"]

\* the final generate resolves with text
GenerationResolves(r, text) ==
    /\ rq[r].pc = "generating"
    /\ LET req == [rq[r] EXCEPT !.gen = "ok", !.answer = "returned",
                                !.result = AgentAnswer(rq[r], text)]
       IN  rq' = [rq EXCEPT ![r] = AfterAnswer(req)]
    /\ UNCHANGED <<webVars, decideVars, hs, clientVars, ragVars, initVars>>


\* faulty variant: the failure of the final generate is swallowed, an empty answer
\* is returned
GenerationFailedSwallowed(req) ==
    AfterAnswer([req EXCEPT !.gen = "failed", !.answer = "returned",
                            !.result = AgentAnswer(req, <<>>)])

\* the final generate rejects: answer() rejects with its error
GenerationFailed(req) ==
    AnswerReject([req EXCEPT !.gen = "failed"], "Ollama generation failed")

GenerationRejects(r) ==
    /\ rq[r].pc = "generating"
    /\ rq' = [rq EXCEPT ![r] = GenerationFailed(rq[r])]
    /\ UNCHANGED <<webVars, decideVars, hs, clientVars, ragVars, initVars>>

\* the 15 ms timer of the chunk loop fires: the next chunk, or done and close
StreamTimer(r) ==
    /\ rq[r].pc = "streaming"
    /\ LET req == rq[r]
       IN  rq' = [rq EXCEPT ![r] =
             IF EnqueueThrows(req) THEN RouteCatch(req, ClosedMsg)
             ELSE IF req.sent < Len(req.result.answer)
             THEN [Emit(req, << "message" >>)
                     EXCEPT !.sent = Min(@ + chunkSize, Len(req.result.answer))]
             ELSE [Emit(req, << "done" >>) EXCEPT !.pc = "closed"]]
    /\ UNCHANGED <<webVars, decideVars, hs, clientVars, ragVars, initVars>>

Running == {"route_decide", "answer_decide", "both_wait", "rag_wait", "web_wait",
            "generating", "streaming", "wso_wait", "wso_generating"}
Ended   == {"closed", "aborted", "responded"}

\* the client cancels the stream or disconnects: the stream is closed
ClientCancel(r) ==
    /\ rq[r].stream
    /\ rq[r].pc \in Running
    /\ ~rq[r].cancelled
    /\ rq' = [rq EXCEPT ![r].cancelled = TRUE]
    /\ UNCHANGED <<webVars, decideVars, hs, clientVars, ragVars, initVars>>

\* the request is over; the services and their caches stay
RequestEnd(r) ==
    /\ rq[r].pc \in Ended
    /\ rq' = [rq EXCEPT ![r] = RqIdle]
    /\ UNCHANGED <<webVars, decideVars, hs, clientVars, ragVars, initVars>>

-----------------------------------------------------------------------------
(* POST with webSearchOnly (src/app/api/agent/route.ts)                     *)

\* POST {query, stream: true, webSearchOnly: true}: the tool frame, a
\* progress frame, and the web search is started
PostWebOnlyStream(r, q) ==
    /\ Free(r)
    /\ rq' = [rq EXCEPT ![r] = [RqIdle EXCEPT !.pc = "wso_wait", !.stream = TRUE,
                                              !.webOnly = TRUE, !.query = q,
                                              !.routeTool = "WebSearch",
                                              !.frames = << "tool", "progress" >>]]
    /\ ws' = [ws EXCEPT ![r] = SearchCall(q)]
    /\ UNCHANGED <<now, searchCache, lastOk, decideVars, hs, clientVars, ragVars, initVars>>

\* POST {query, webSearchOnly: true} without stream: the web search is started
PostWebOnlyJson(r, q) ==
    /\ Free(r)
    /\ rq' = [rq EXCEPT ![r] = [RqIdle EXCEPT !.pc = "wso_wait", !.webOnly = TRUE,
                                              !.query = q]]
    /\ ws' = [ws EXCEPT ![r] = SearchCall(q)]
    /\ UNCHANGED <<now, searchCache, lastOk, decideVars, hs, clientVars, ragVars, initVars>>

\* the web search of a webSearchOnly request has settled: the JSON response;
\* or a progress frame, the sources frame (also when there are no sources),
\* two progress frames, and generateStream is started
WebOnlySearchSettled(r) ==
    /\ rq[r].pc = "wso_wait"
    /\ ws[r].pc \in {"done", "failed"}
    /\ LET req == rq[r]
           res == ws[r].result
           got == [req EXCEPT !.webResult = res, !.sources = WebSources(res),
                              !.webSearch = "ok"]
       IN  rq' = [rq EXCEPT ![r] =
             IF ws[r].pc = "failed"
             THEN RouteCatch([req EXCEPT !.webSearch = "failed"], ws[r].err)
             ELSE IF ~req.stream
             THEN [got EXCEPT !.pc = "responded", !.status = 200]
             ELSE IF EnqueueThrows(req) THEN RouteCatch(got, ClosedMsg)
             ELSE [Emit(got, << "progress", "sources", "progress", "progress" >>)
                     EXCEPT !.pc = "wso_generating", !.gen = "streaming"]]
    /\ ws' = [ws EXCEPT ![r] = WsIdle]
    /\ UNCHANGED <<now, searchCache, lastOk, decideVars, hs, clientVars, ragVars, initVars>>

\* generateStream yields a token: onToken enqueues a message frame; its throw
\* on a closed controller ends generateStream, which rethrows
WebOnlyToken(r) ==
    /\ rq[r].pc = "wso_generating"
    /\ rq[r].sent < MaxTokens
    /\ rq' = [rq EXCEPT ![r] =
                IF EnqueueThrows(rq[r])
                THEN RouteCatch([rq[r] EXCEPT !.gen = "stream_failed"], ClosedMsg)
                ELSE [Emit(rq[r], << "message" >>) EXCEPT !.sent = @ + 1]]
    /\ UNCHANGED <<webVars, decideVars, hs, clientVars, ragVars, initVars>>

\* generateStream resolves: the done frame and close
WebOnlyGenerationEnds(r) ==
    /\ rq[r].pc = "wso_generating"
    /\ rq' = [rq EXCEPT ![r] =
                IF EnqueueThrows(rq[r])
                THEN RouteCatch([rq[r] EXCEPT !.gen = "stream_ok"], ClosedMsg)
                ELSE [Emit(rq[r], << "done" >>) EXCEPT !.pc = "closed",
                                                       !.gen = "stream_ok"]]
    /\ UNCHANGED <<webVars, decideVars, hs, clientVars, ragVars, initVars>>

\* generateStream rejects, at its start or between two tokens
WebOnlyGenerationFails(r) ==
    /\ rq[r].pc = "wso_generating"
    /\ rq' = [rq EXCEPT ![r] =
                RouteCatch([rq[r] EXCEPT !.gen = "stream_failed"],
                           "Ollama streaming failed")]
    /\ UNCHANGED <<webVars, decideVars, hs, clientVars, ragVars, initVars>>

-----------------------------------------------------------------------------
(* Specifications *)

HsIdle == [pc |-> "idle", webScore |-> 0, ragScore |-> 0, tool |-> ""]

\* the agent of the route has been built, with a web-search credential
AgentReady ==
    /\ agentInstance = TRUE
    /\ initError = ""
    /\ apiKey = TRUE

\* empty caches and an empty collection, nothing in flight
ServicesIdle ==
    /\ collection = <<>>
    /\ embedCache = {}
    /\ issued = <<>>
    /\ clock = 0
    /\ ing = [c \in Callers |-> IngIdle]
    /\ rs = RsIdle
    /\ ga = [c \in Callers |-> GaIdle]
    /\ oc = [c \in Callers |-> OcIdle]
    /\ rd = RdIdle
    /\ now = 0
    /\ searchCache = <<>>
    /\ ws = [c \in Callers |-> WsIdle]
    /\ lastOk = <<>>
    /\ decisionCache = <<>>
    /\ lastTool = <<>>
    /\ dc = [c \in Callers |-> DcIdle]
    /\ rq = [r \in Callers |-> RqIdle]

\* the state after construction: the agent built, empty caches, nothing in
\* flight
InitServices == AgentReady /\ ServicesIdle

Init == InitServices /\ hs = HsIdle

\* the queries of the requests
AgentQueries == { <<"latest", "authrix">>, <<"Latest", "News">> }

WebOnlySteps ==
    \/ \E r \in Reqs, q \in AgentQueries : PostWebOnlyStream(r, q)
    \/ \E r \in Reqs, q \in AgentQueries : PostWebOnlyJson(r, q)
    \/ \E r \in Reqs : WebOnlySearchSettled(r)
    \/ \E r \in Reqs : WebOnlyToken(r)
    \/ \E r \in Reqs : WebOnlyGenerationEnds(r)
    \/ \E r \in Reqs : WebOnlyGenerationFails(r)

WebSearchSteps(C, responses) ==
    \/ \E c \in C, data \in responses : WebFetchOk(c, data)
    \/ \E c \in C : WebFetchRateLimited(c)
    \/ \E c \in C : WebCooldownEnd(c)
    \/ \E c \in C : WebFetchTimeout(c)
    \/ \E c \in C, err \in FetchErrors : WebFetchError(c, err)

\* the agent route serving requests
Next ==
    \/ \E r \in Reqs, q \in AgentQueries : PostStream(r, q)
    \/ \E r \in Reqs, q \in AgentQueries : PostJson(r, q)
    \/ \E r \in Reqs, out \in DecisionOutputs : DecideGenerated(r, out)
    \/ \E r \in Reqs : RouteToolDecided(r)
    \/ \E r \in Reqs : AnswerToolDecided(r)
    \/ \E r \in Reqs, response \in AgentIndexResponses : RagSearchResolves(r, response)
    \/ \E r \in Reqs : RagSearchRejects(r)
    \/ WebSearchSteps(Reqs, ApiResponses)
    \/ \E r \in Reqs : WebSearchSettled(r)
    \/ \E r \in Reqs, text \in GenTexts : GenerationResolves(r, text)
    \/ \E r \in Reqs : GenerationRejects(r)
    \/ \E r \in Reqs : StreamTimer(r)
    \/ \E r \in Reqs : ClientCancel(r)
    \/ WebOnlySteps
    \/ \E r \in Reqs : RequestEnd(r)

Spec == Init /\ [][Next]_vars

\* callers of WebSearchService.search, and the clock
WebQueries == { <<"latest", "news">>, <<"Latest", "News", " ">>, <<"hello">> }

NextWeb ==
    \/ \E c \in Callers, q \in WebQueries : WebSearchCall(c, q)
    \/ WebSearchSteps(Callers, {r \in ApiResponses : Len(r.results) > 0})
    \/ \E c \in Callers : WebSearchReturn(c)
    \/ Tick

SpecWeb == Init /\ [][NextWeb]_vars

\* concurrent callers of AIAgent.decideTool
DecideQueries == { <<"latest", "news">>, <<"Latest", "News">>, <<"latest", "authrix">> }

NextDecide ==
    \/ \E c \in Callers, q \in DecideQueries : DecideCall(c, q)
    \/ \E c \in Callers, out \in DecisionOutputs : DecideGenerated(c, out)
    \/ \E c \in Callers : DecideReturn(c)

SpecDecide == Init /\ [][NextDecide]_vars

\* callers of AIAgent.decideTool, one call at a time
NextDecideSeq ==
    \/ \E c \in Callers, q \in Queries : DecideCallAlone(c, q)
    \/ \E c \in Callers, out \in DecisionOutputs : DecideGenerated(c, out)
    \/ \E c \in Callers : DecideReturn(c)

SpecDecideSeq == Init /\ [][NextDecideSeq]_vars

\* the heuristic decision on every pair of scores
InitHeur ==
    /\ InitServices
    /\ \E w \in 0..MaxScore, g \in 0..MaxScore :
          hs = [pc |-> "scored", webScore |-> w, ragScore |-> g, tool |-> ""]

NextHeur == HeuristicEvaluate

SpecHeur == InitHeur /\ [][NextHeur]_vars

\* RAGService.search on every index response
NextRag ==
    \/ \E response \in IndexResponses : RagSearchCall(response)
    \/ RagSearchReturn
    \/ RagSearchEnd

SpecRag == Init /\ [][NextRag]_vars

\* concurrent RAGService.addDocuments calls
NextIngest ==
    \/ \E c \in Callers, documents \in Batches : AddDocumentsCall(c, documents)
    \/ \E c \in Callers, i \in 1..2 : EmbedResolves(c, i)
    \/ \E c \in Callers, i \in 1..2 : EmbedRejects(c, i)
    \/ \E c \in Callers : AddResolves(c)
    \/ \E c \in Callers : AddRejects(c)
    \/ \E c \in Callers : AddDocumentsReturn(c)
    \/ TickMs

SpecIngest == Init /\ [][NextIngest]_vars

\* the process has started: no agent yet, with or without a web-search key
InitProcess ==
    /\ agentInstance = FALSE
    /\ initError = ""
    /\ apiKey \in BOOLEAN
    /\ ServicesIdle
    /\ hs = HsIdle

\* requests of the agent route from the start of the process
NextInit ==
    \/ \E c \in Callers, kind \in {"GET", "POST"} : AgentRequest(c, kind)
    \/ \E c \in Callers : RagInitializeResolves(c)
    \/ \E c \in Callers, msg \in IndexErrors : RagInitializeRejects(c, msg)
    \/ \E c \in Callers, readable \in BOOLEAN : CollectionCountResolves(c, readable)
    \/ \E c \in Callers, msg \in IndexErrors : CollectionCountRejects(c, msg)
    \/ \E c \in Callers, i \in 1..Len(DefaultDocuments) : EmbedResolves(c, i)
    \/ \E c \in Callers, i \in 1..Len(DefaultDocuments) : EmbedRejects(c, i)
    \/ \E c \in Callers : AddResolves(c)
    \/ \E c \in Callers : AddRejects(c)
    \/ \E c \in Callers : DefaultLoadSettled(c)
    \/ \E c \in Callers : ProbeCountResolves(c)
    \/ \E c \in Callers, msg \in IndexErrors : ProbeCountRejects(c, msg)
    \/ \E c \in Callers : AgentRequestEnd(c)
    \/ TickMs

SpecInit == InitProcess /\ [][NextInit]_vars

\* requests of the agent route and of the documents route with their bodies
NextValidate ==
    \/ \E c \in Callers, body \in PostBodies : AgentPost(c, body)
    \/ \E c \in Callers, body \in DocumentBodies : DocumentsPost(c, body)
    \/ \E c \in Callers : RagInitializeResolves(c)
    \/ \E c \in Callers, msg \in IndexErrors : RagInitializeRejects(c, msg)
    \/ \E c \in Callers, readable \in BOOLEAN : CollectionCountResolves(c, readable)
    \/ \E c \in Callers, msg \in IndexErrors : CollectionCountRejects(c, msg)
    \/ \E c \in Callers : EmbedResolves(c, 1)
    \/ \E c \in Callers : EmbedRejects(c, 1)
    \/ \E c \in Callers : AddResolves(c)
    \/ \E c \in Callers : AddRejects(c)
    \/ \E c \in Callers : DefaultLoadSettled(c)
    \/ \E c \in Callers : AgentRequestEnd(c)
    \/ \E c \in Callers : DocumentsReturn(c)

SpecValidate == InitProcess /\ [][NextValidate]_vars

\* callers of the generation client, and the clock
NextClient ==
    \/ \E c \in Callers, kind \in {"generate", "embed"} : ClientCall(c, kind)
    \/ \E c \in Callers : ClientResolves(c)
    \/ \E c \in Callers, msg \in TransportErrors : ClientRejects(c, msg)
    \/ \E c \in Callers : ClientReturn(c)
    \/ ClientTick

SpecClient == Init /\ [][NextClient]_vars

\* the client reading streamed answers, the transport cutting the stream
\* into read chunks at any place
NextReader ==
    \/ \E stream \in ServerStreams : ReaderOpen(stream)
    \/ \E n \in 1..MaxChunk : ReaderRead(n)
    \/ ReaderDone
    \/ ReaderFails
    \/ ReaderReset

SpecReader == Init /\ [][NextReader]_vars

\* two requests of the agent route at once, for one query that the model
\* classifies now as local, now as web
ConcurrentQueries == { <<"latest", "authrix">> }
ConcurrentOutputs ==
    { out \in DecisionOutputs : out.parses /\ out.tool \in {"RAG", "WebSearch"} }

NextConcurrent ==
    \/ \E r \in Callers, q \in ConcurrentQueries : PostStream(r, q)
    \/ \E r \in Callers, q \in ConcurrentQueries : PostJson(r, q)
    \/ \E r \in Callers, out \in ConcurrentOutputs : DecideGenerated(r, out)
    \/ \E r \in Callers : RouteToolDecided(r)
    \/ \E r \in Callers : AnswerToolDecided(r)
    \/ \E r \in Callers : RagSearchResolves(r, <<>>)
    \/ \E r \in Callers : RagSearchRejects(r)
    \/ \E r \in Callers, data \in {d \in ApiResponses : Len(d.results) = 0} : WebFetchOk(r, data)
    \/ \E r \in Callers : WebFetchError(r, "fetch failed")
    \/ \E r \in Callers : WebSearchSettled(r)
    \/ \E r \in Callers : GenerationResolves(r, << "a", "b" >>)
    \/ \E r \in Callers : GenerationRejects(r)
    \/ \E r \in Callers : StreamTimer(r)
    \/ \E r \in Callers : RequestEnd(r)

SpecConcurrent == Init /\ [][NextConcurrent]_vars

\* one streaming request of the agent route that the client does not cancel
NextLive ==
    \/ \E r \in Reqs, q \in AgentQueries : PostStream(r, q)
    \/ \E r \in Reqs, out \in DecisionOutputs : DecideGenerated(r, out)
    \/ \E r \in Reqs : RouteToolDecided(r)
    \/ \E r \in Reqs, response \in AgentIndexResponses : RagSearchResolves(r, response)
    \/ \E r \in Reqs : RagSearchRejects(r)
    \/ WebSearchSteps(Reqs, ApiResponses)
    \/ \E r \in Reqs : WebSearchSettled(r)
    \/ \E r \in Reqs, text \in GenTexts : GenerationResolves(r, text)
    \/ \E r \in Reqs : GenerationRejects(r)
    \/ \E r \in Reqs : StreamTimer(r)
    \/ \E r \in Reqs : RequestEnd(r)

\* the steps the program takes by itself are taken: the continuations of its
\* awaits once the awaited call has settled, and its timers (the cooldown of
\* web-search.ts:108, the abort timer of web-search.ts:99, the 15 ms timer of
\* route.ts:316).  The responses of the model server, of the index and of
\* the search API depend on those services and carry no fairness
OwnStepsFair ==
    \A r \in Reqs :
      /\ WF_vars(RouteToolDecided(r))
      /\ WF_vars(WebSearchSettled(r))
      /\ WF_vars(WebCooldownEnd(r))
      /\ WF_vars(WebFetchTimeout(r))
      /\ WF_vars(StreamTimer(r))

SpecLive == Init /\ [][NextLive]_vars /\ OwnStepsFair

-----------------------------------------------------------------------------
(* Properties *)

Last(seq) == seq[Len(seq)]
Has(seq, x) == \E i \in 1..Len(seq) : seq[i] = x
AllOfType(sources, type) == \A i \in 1..Len(sources) : sources[i].type = type

\* the request is a Both-mode answer whose searches ended as given, with the
\* stream (if any) still open, so that each branch ended as its search did
BothEnded(req, ragEnd, webEnd) ==
    /\ req.tool = "Both"
    /\ ~req.cancelled
    /\ req.ragSearch = ragEnd
    /\ req.webSearch = webEnd

\* C1: in Both mode, when exactly one of the two searches fails and the other
\* succeeds, the failure does not make answer() reject (it rejects only when
\* the final generation fails): the context holds the content of the search
\* that succeeded and the failure notice of the one that failed, the sources
\* are those of the search that succeeded only, and the AgentAnswer returned
\* carries them.
C1_PartialFailure ==
    \A r \in Reqs :
      LET req == rq[r]
          lkb == << "**Local Knowledge Base:**" >>
          wsr == << "**Web Search Results:**" >>
      IN  /\ BothEnded(req, "failed", "ok") =>
               /\ req.webRes.status = "fulfilled"
               /\ req.context = lkb \o << "RAG search failed." >> \o wsr
                                    \o req.webRes.value.content
               /\ req.sources = WebSources(req.webRes.value)
               /\ AllOfType(req.sources, "web")
               /\ req.answer = "rejected" => req.gen = "failed"
               /\ req.gen = "ok" =>
                     /\ req.answer = "returned"
                     /\ req.result.tool = "Both"
                     /\ req.result.sources = req.sources
                     /\ req.result.webResult = req.webRes.value
                     /\ req.result.ragResult = NoRag
          /\ BothEnded(req, "ok", "failed") =>
               /\ req.ragRes.status = "fulfilled"
               /\ req.context = lkb \o req.ragRes.value.content \o wsr
                                    \o << "Web search failed." >>
               /\ req.sources = RagSources(req.ragRes.value)
               /\ AllOfType(req.sources, "rag")
               /\ req.answer = "rejected" => req.gen = "failed"
               /\ req.gen = "ok" =>
                     /\ req.answer = "returned"
                     /\ req.result.tool = "Both"
                     /\ req.result.sources = req.sources
                     /\ req.result.ragResult = req.ragRes.value
                     /\ req.result.webResult = NoResult

\* a Both-mode answer returned with the web search failed and the documents
\* of the local search as its only sources
C1_Witness ==
    \E r \in Reqs :
      /\ BothEnded(rq[r], "ok", "failed")
      /\ rq[r].answer = "returned"
      /\ Len(rq[r].result.sources) > 0
      /\ Has(rq[r].context, "Web search failed.")

\* C2: in Both mode the two searches are started together, before either is
\* awaited; the context is merged and the generation started only once both
\* have settled; a search that rejects leaves the other one running, and the
\* result of the other one is what the merge uses.
C2_State ==
    \A r \in Reqs :
      LET req == rq[r]
      IN  req.tool = "Both" =>
            /\ (req.ragRes.status = "none") <=> (req.webRes.status = "none")
            /\ (req.contextSource # "" \/ req.gen # "none") =>
                  /\ req.ragRes.status \in {"fulfilled", "rejected"}
                  /\ req.webRes.status \in {"fulfilled", "rejected"}
            /\ req.pc = "both_wait" =>
                  \/ req.ragRes.status = "pending"
                  \/ req.webRes.status = "pending"
            /\ (req.webRes.status = "pending") =>
                  /\ req.pc = "both_wait"
                  /\ ws[r].pc # "idle"
            /\ (req.contextSource # "" /\ req.ragRes.status = "fulfilled") =>
                  /\ req.ragResult = req.ragRes.value
                  /\ Len(req.ragRes.value.sources) > 0 =>
                        Has(req.sources, RagSource(req.ragRes.value.sources[1]))
            /\ (req.contextSource # "" /\ req.webRes.status = "fulfilled") =>
                  /\ req.webResult = req.webRes.value
                  /\ Len(req.webRes.value.sources) > 0 =>
                        Has(req.sources, WebSource(req.webRes.value.sources[1]))

C2_Step ==
    \A r \in Reqs :
      (rq[r].tool = "Both" /\ rq[r].pc = "both_wait") =>
         /\ (rq[r].webRes.status = "pending" /\ rq'[r].ragRes.status = "rejected"
               /\ rq[r].ragRes.status = "pending") =>
                  /\ rq'[r].webRes.status = "pending"
                  /\ rq'[r].pc = "both_wait"
                  /\ ws'[r] = ws[r]
         /\ (rq[r].ragRes.status = "pending" /\ rq'[r].webRes.status = "rejected"
               /\ rq[r].webRes.status = "pending") =>
                  /\ rq'[r].ragRes.status = "pending"
                  /\ rq'[r].pc = "both_wait"

C2_BothSettleBeforeMerge == [] C2_State /\ [][C2_Step]_vars

\* the web search rejected first, the local search resolved after it, and
\* the answer returned carries the result of the local search
C2_Witness ==
    \E r \in Reqs :
      /\ BothEnded(rq[r], "ok", "failed")
      /\ rq[r].order = << "web", "rag" >>
      /\ rq[r].answer = "returned"
      /\ rq[r].result.ragResult = rq[r].ragRes.value
      /\ rq[r].result.ragResult # NoRag

C4_GenerationFailure ==
    \A r \in Reqs :
      LET req == rq[r]
      IN  req.gen = "failed" =>
            /\ req.answer = "rejected"
            /\ req.result = NoAnswer
            /\ ~Has(req.frames, "done")
            /\ ~Has(req.frames, "message")
            /\ ~Has(req.frames, "sources")
            /\ req.err # ""
            /\ (req.stream /\ ~req.cancelled) =>
                  /\ req.pc = "closed"
                  /\ Last(req.frames) = "error"
            /\ ~req.stream =>
                  /\ req.pc = "responded"
                  /\ req.status = 500
                  /\ req.frames = <<>>

\* a streaming request whose final generation failed after a partial search
\* failure, closed on an error frame
C4_Witness ==
    \E r \in Reqs :
      /\ rq[r].gen = "failed"
      /\ rq[r].stream
      /\ ~rq[r].cancelled
      /\ rq[r].pc = "closed"
      /\ Last(rq[r].frames) = "error"
      /\ Has(rq[r].frames, "tool")

\* C5: with one decideTool call at a time, a call that follows a finished
\* call for the same query, or for a query that differs from it only in
\* letter case, returns the tool the finished call returned and does not
\* invoke the generation runtime, whether that tool came from the model or
\* from the heuristic fallback.
C5_ConsecutiveCalls ==
    \A c \in Callers :
      (dc[c].pc = "done" /\ dc[c].prev.tool # "") =>
         /\ dc[c].ret = dc[c].prev.tool
         /\ ~dc[c].generated
         /\ dc[c].out = NoOutput

\* a second call, spelled in another letter case than the first, whose
\* decision the heuristic fallback had taken
C5_Witness ==
    \E c \in Callers :
      /\ dc[c].pc = "done"
      /\ dc[c].prev.tool \in Tools
      /\ dc[c].prev.heuristic
      /\ dc[c].prev.query # dc[c].query
      /\ dc[c].ret = dc[c].prev.tool
      /\ ~dc[c].generated

\* C6 as stated: once a decision is stored under a key, the value under that
\* key never changes, whatever the interleaving of decideTool calls.
C6_StoredNeverChanges ==
    [][\A k \in DOMAIN decisionCache :
          /\ k \in DOMAIN decisionCache'
          /\ decisionCache'[k] = decisionCache[k]]_vars

\* a call is in flight towards the model for a key that held no decision
\* when the call started
InFlightFromMiss(c, k) ==
    /\ dc[c].pc = "generating"
    /\ toLowerCase(dc[c].query) = k
    /\ ~dc[c].stored

\* C6: once a decision is stored under a key, the key is never removed and
\* always holds one of the three tools; a call that starts after the store
\* returns the stored value without invoking the model and without writing;
\* the stored value changes only when a call that was already in flight
\* when the key was first stored finishes, and then to the tool that call
\* returns (the last writer wins).
C6_State ==
    \A c \in Callers :
      /\ dc[c].pc = "generating" => ~dc[c].stored
      /\ (dc[c].pc = "done" /\ dc[c].stored) => ~dc[c].generated

C6_Step ==
    \A k \in DOMAIN decisionCache :
      /\ k \in DOMAIN decisionCache'
      /\ decisionCache'[k] \in Tools
      /\ decisionCache'[k] # decisionCache[k] =>
            \E c \in Callers :
               /\ InFlightFromMiss(c, k)
               /\ dc'[c].pc = "done"
               /\ dc'[c].ret = decisionCache'[k]

C6_LastWriterWins == [] C6_State /\ [][C6_Step]_vars

\* a call in flight since before the store has overwritten the stored tool:
\* the cache holds its tool, the caller that stored first holds another
C6_Witness ==
    \E c, d \in Callers :
      /\ dc[c].pc = "done" /\ dc[c].generated
      /\ dc[d].pc = "done" /\ dc[d].generated
      /\ toLowerCase(dc[c].query) = toLowerCase(dc[d].query)
      /\ dc[c].ret # dc[d].ret
      /\ decisionCache[toLowerCase(dc[d].query)] = dc[d].ret

\* the outputs of the model on which decideTool must fall back
FallsBack(out) ==
    \/ out.thrown
    \/ ~out.jsonMatch
    \/ ~out.parses
    \/ out.tool \notin {"RAG", "WebSearch", "Both"}

\* C7: decideTool never fails and returns one of the three tools; when the
\* generation call throws, when its output holds no JSON object with a tool
\* field, when the object does not parse, or when its tool is not one of the
\* three, the call returns the decision of the heuristic and stores it in the
\* cache under the lowercased query.
C7_State ==
    \A c \in Callers :
      /\ dc[c].pc \in {"idle", "generating", "done"}
      /\ dc[c].pc = "done" =>
            /\ dc[c].ret \in Tools
            /\ (dc[c].generated /\ FallsBack(dc[c].out)) =>
                  dc[c].ret = advancedHeuristicDecision(dc[c].query)
            /\ (dc[c].generated /\ ~FallsBack(dc[c].out)) =>
                  dc[c].ret = dc[c].out.tool

C7_Step ==
    \A c \in Callers :
      (dc[c].pc = "generating" /\ dc'[c].pc # "generating") =>
         /\ dc'[c].pc = "done"
         /\ toLowerCase(dc[c].query) \in DOMAIN decisionCache'
         /\ decisionCache'[toLowerCase(dc[c].query)] = dc'[c].ret

C7_AlwaysATool == [] C7_State /\ [][C7_Step]_vars

\* one call whose generation threw and one whose model named the invalid
\* tool "rag", both answered by the heuristic
C7_Witness ==
    \E c, d \in Callers :
      /\ dc[c].pc = "done" /\ dc[c].generated /\ dc[c].out.thrown
      /\ dc[c].ret = advancedHeuristicDecision(dc[c].query)
      /\ dc[d].pc = "done" /\ dc[d].generated /\ dc[d].out.tool = "rag"
      /\ dc[d].ret = advancedHeuristicDecision(dc[d].query)

\* C8: on the scores (webScore, ragScore) the heuristic decides Both exactly
\* when both are positive and differ by less than 3; otherwise the web tool
\* when webScore is the higher, the local tool when ragScore is the higher
\* and the local tool when they are equal.
C8_ScoreDecision ==
    hs.pc = "decided" =>
      LET w == hs.webScore
          g == hs.ragScore
          close == w > 0 /\ g > 0 /\ w - g < 3 /\ g - w < 3
      IN  /\ hs.tool \in Tools
          /\ (hs.tool = "Both") <=> close
          /\ (~close /\ w > g) => hs.tool = "WebSearch"
          /\ (~close /\ g > w) => hs.tool = "RAG"
          /\ (~close /\ w = g) => hs.tool = "RAG"

\* positive scores exactly the margin apart: not Both, the higher one wins
C8_Witness ==
    /\ hs.pc = "decided"
    /\ hs.webScore = 4
    /\ hs.ragScore = 1
    /\ hs.tool = "WebSearch"

\* C9: a search issued less than the cache window after a search for the
\* same normalized query succeeded makes no outbound call and returns at
\* once (the two searches make one outbound call together); a search issued
\* when the last success for its normalized query is at least the window
\* old, or when there is none, makes an outbound call of its own.
C9_CacheWindow ==
    \A c \in Callers :
      ws[c].pc # "idle" =>
         /\ ws[c].fresh =>
               /\ ws[c].pc = "done"
               /\ ws[c].attempts = 0
               /\ ws[c].hist = <<>>
               /\ ws[c].result # NoResult
         /\ ~ws[c].fresh => ws[c].attempts >= 1

\* one caller served from the cache for a query that differs from the
\* cached one in case and trailing space, and, the window having expired,
\* another caller fetching the same normalized query again
C9_Witness ==
    \E c, d \in Callers :
      /\ ws[c].pc = "done" /\ ws[c].fresh /\ ws[c].attempts = 0
      /\ ws[d].pc = "fetching" /\ ws[d].stale /\ ws[d].attempts = 1
      /\ ws[c].query # ws[d].query
      /\ NormalizedQuery(ws[c].query) = NormalizedQuery(ws[d].query)

\* C10: a top-level search never makes more than 3 outbound attempts; after
\* 429, 429 and a success it returns the result, having made exactly 3; after
\* three 429 it fails with "Web search failed: 429", having made exactly 3.
C10_RetryBound ==
    \A c \in Callers :
      /\ ws[c].attempts <= 3
      /\ Len(ws[c].hist) <= ws[c].attempts
      /\ ws[c].hist = << "429", "429", "ok" >> =>
            /\ ws[c].pc = "done"
            /\ ws[c].attempts = 3
            /\ ws[c].result # NoResult
      /\ ws[c].hist = << "429", "429", "429" >> =>
            /\ ws[c].pc \in {"cooldown", "failed"}
            /\ ws[c].attempts = 3
            /\ ws[c].pc = "failed" => ws[c].err = "Web search failed: 429"

\* one search that succeeded on its third attempt and one that failed on it
C10_Witness ==
    \E c, d \in Callers :
      /\ ws[c].hist = << "429", "429", "ok" >> /\ ws[c].pc = "done"
      /\ ws[d].hist = << "429", "429", "429" >> /\ ws[d].pc = "failed"

AllTimeouts(hist) == hist # <<>> /\ \A i \in 1..Len(hist) : hist[i] = "timeout"

\* C11: an attempt of a top-level search that times out is retried once: after
\* one timeout the search is not failed, it has entered search again (a
\* second outbound attempt, or the result another caller cached meanwhile);
\* after a second timeout it fails with "Web search timed out. Please try
\* again.", so a search all of whose attempts timed out never makes more
\* than 2 attempts and fails after exactly 2.
C11_TimeoutRetry ==
    \A c \in Callers :
      AllTimeouts(ws[c].hist) =>
         /\ Len(ws[c].hist) <= 2
         /\ ws[c].hist = << "timeout" >> =>
               \/ ws[c].pc = "fetching" /\ ws[c].attempts = 2 /\ ws[c].retryCount = 1
               \/ ws[c].pc = "done" /\ ws[c].attempts = 1 /\ ws[c].result # NoResult
         /\ ws[c].hist = << "timeout", "timeout" >> =>
               /\ ws[c].pc = "failed"
               /\ ws[c].attempts = 2
               /\ ws[c].err = "Web search timed out. Please try again."

\* a search failed by two timeouts
C11_Witness ==
    \E c \in Callers :
      /\ ws[c].hist = << "timeout", "timeout" >>
      /\ ws[c].pc = "failed"
      /\ ws[c].attempts = 2

Count(seq, x) == Cardinality({i \in 1..Len(seq) : seq[i] = x})
Before(seq, x, i) == \E j \in 1..(i - 1) : seq[j] = x

\* C12: in a streaming answer, agent mode or webSearchOnly, there is at most
\* one tool frame, one sources frame and one done frame; the sources frame
\* comes after the tool frame; every message frame and the done frame come
\* after the tool frame and after the sources frame when there is one (there
\* is one in webSearchOnly mode always, in agent mode when the answer has
\* sources); the done frame is the last frame, and nothing is enqueued after
\* it.
C12_State ==
    \A r \in Reqs :
      LET req == rq[r]
          F   == req.frames
      IN  req.stream =>
            /\ Count(F, "tool") <= 1
            /\ Count(F, "sources") <= 1
            /\ Count(F, "done") <= 1
            /\ \A i \in 1..Len(F) :
                  /\ F[i] \in {"sources", "message", "done"} => Before(F, "tool", i)
                  /\ F[i] \in {"message", "done"} =>
                        \A j \in 1..Len(F) : F[j] = "sources" => j < i
                  /\ F[i] = "done" => i = Len(F)
            /\ (req.webOnly /\ (Has(F, "message") \/ Has(F, "done"))) =>
                  Has(F, "sources")
            /\ (~req.webOnly /\ (Has(F, "message") \/ Has(F, "done"))) =>
                  (Has(F, "sources") <=> Len(req.result.sources) > 0)

C12_Step ==
    \A r \in Reqs :
      Has(rq[r].frames, "done") => (rq'[r] = rq[r] \/ rq'[r] = RqIdle)

C12_FrameOrder == [] C12_State /\ [][C12_Step]_vars

\* an agent-mode stream closed after tool, sources, two chunks and done
C12_Witness ==
    \E r \in Reqs :
      /\ rq[r].stream /\ ~rq[r].webOnly
      /\ rq[r].tool = "Both"
      /\ rq[r].pc = "closed"
      /\ Has(rq[r].frames, "tool")
      /\ Has(rq[r].frames, "sources")
      /\ Count(rq[r].frames, "message") = 2
      /\ Last(rq[r].frames) = "done"

\* C13: a streaming answer on a stream the client has not cancelled ends
\* closed with exactly one terminal frame, done or error, as its last frame;
\* no stream ever holds two terminal frames, and after an error frame
\* nothing more is enqueued.
C13_State ==
    \A r \in Reqs :
      LET req == rq[r]
          F   == req.frames
      IN  req.stream =>
            /\ Count(F, "done") + Count(F, "error") <= 1
            /\ (Has(F, "done") \/ Has(F, "error")) =>
                  /\ req.pc = "closed"
                  /\ Last(F) \in {"done", "error"}
            /\ req.pc = "closed" => Last(F) \in {"done", "error"}
            /\ (req.pc \in {"closed", "aborted", "responded"} /\ ~req.cancelled) =>
                  req.pc = "closed"

C13_Step ==
    \A r \in Reqs :
      Has(rq[r].frames, "error") => (rq'[r] = rq[r] \/ rq'[r] = RqIdle)

C13_OneTerminalFrame == [] C13_State /\ [][C13_Step]_vars

\* a webSearchOnly stream whose generation failed after a token: message
\* frames, then the error frame, closed
C13_Witness ==
    \E r \in Reqs :
      /\ rq[r].stream /\ rq[r].webOnly
      /\ rq[r].pc = "closed"
      /\ Has(rq[r].frames, "message")
      /\ Last(rq[r].frames) = "error"
      /\ ~Has(rq[r].frames, "done")

\* C14 as stated: a progress callback that throws does not abort answer()
\* and does not change its outcome: a search that succeeded is never recorded
\* as rejected, and answer() never rejects with the error of the callback.
C14_CallbackThrowHarmless ==
    \A r \in Reqs :
      LET req == rq[r]
      IN  /\ req.ragSearch = "ok" => req.ragRes.status # "rejected"
          /\ req.webSearch = "ok" => req.webRes.status # "rejected"
          /\ req.answer = "rejected" => req.err # ClosedMsg

\* the neighbours the search is to return: those that have a document text
\* and whose score is undefined or at least the minimum
Kept(neighbour) ==
    /\ neighbour.document # ""
    /\ \/ ~neighbour.distance.defined
       \/ 10 - neighbour.distance.value >= MinSimilarityScore

\* C15 as stated: the sources of search() are exactly the neighbours whose
\* score is undefined or at least the minimum, in the order of the index,
\* each with its own score, and the content numbers them 1..n.
C15_SimilarityFilter ==
    rs.pc = "done" =>
      LET expected == SelectSeq(rs.response, Kept)
          sources  == rs.result.sources
      IN  /\ Len(sources) = Len(expected)
          /\ \A i \in 1..Len(sources) :
                /\ i <= Len(expected)
                /\ sources[i].document = expected[i].document
                /\ sources[i].score.defined = expected[i].distance.defined
                /\ sources[i].score.defined =>
                      sources[i].score.value = 10 - expected[i].distance.value
          /\ sources # <<>> => rs.result.content = NumberedFrom(sources, 1)

\* no neighbour of the response passes the filter
NothingRemains(response) ==
    \A i \in 1..Len(response) :
       /\ response[i].distance.defined
       /\ 10 - response[i].distance.value < MinSimilarityScore

\* C16: when no neighbour remains after filtering, an empty collection
\* included, search() resolves with the sentinel content and no sources; in
\* Local mode answer() then takes the sentinel as context, runs the final
\* generation and returns an AgentAnswer without sources.
C16_EmptyResultSentinel ==
    \A r \in Reqs :
      LET req == rq[r]
      IN  (req.ragSearch = "ok" /\ NothingRemains(req.index) /\ ~req.cancelled) =>
            /\ req.ragRes.status = "fulfilled"
            /\ req.ragRes.value.content = NoRelevantDocuments
            /\ req.ragRes.value.sources = <<>>
            /\ req.tool = "RAG" =>
                  /\ req.context = NoRelevantDocuments
                  /\ req.sources = <<>>
                  /\ req.gen # "none"
                  /\ req.answer = "rejected" => req.gen = "failed"
                  /\ req.gen = "ok" =>
                        /\ req.answer = "returned"
                        /\ req.result.tool = "RAG"
                        /\ req.result.sources = <<>>
                        /\ req.result.ragResult.content = NoRelevantDocuments

\* a Local-mode answer returned on an empty collection, and one on a
\* collection whose only neighbour is below the threshold
C16_Witness ==
    \E r \in Reqs :
      /\ rq[r].tool = "RAG"
      /\ rq[r].ragSearch = "ok"
      /\ rq[r].index = << Neighbour("d2", Distance(9)) >>
      /\ rq[r].answer = "returned"
      /\ rq[r].result.sources = <<>>
      /\ rq[r].context = NoRelevantDocuments

\* C17 as stated: every id handed to the index differs from every other id
\* ever handed to it, within one call and across calls.
C17_DistinctIds ==
    \A i, j \in 1..Len(issued) :
       i # j => issued[i].id # issued[j].id

\* C18: the insertion call of addDocuments is made only when every embedding
\* of the batch has resolved; when an embedding of the batch rejects, the
\* call fails without an insertion call, and the collection changes only by
\* the insertion call of a batch whose embeddings all resolved.
C18_State ==
    \A c \in Callers :
      /\ ing[c].embedFailed =>
            /\ ing[c].pc = "failed"
            /\ ing[c].addCalls = 0
            /\ ing[c].ids = <<>>
      /\ ing[c].addCalls > 0 =>
            /\ ing[c].pending = {}
            /\ ing[c].addCalls = 1
            /\ \A i \in 1..Len(ing[c].documents) : ing[c].documents[i] \in embedCache

C18_Step ==
    collection' # collection =>
       \E c \in Callers :
          /\ ing[c].pc = "adding"
          /\ ~ing[c].embedFailed
          /\ ing'[c].pc = "done"

C18_BatchAborts == [] C18_State /\ [][C18_Step]_vars

\* a batch of two whose first embedding resolved and whose second rejected:
\* the call failed, nothing was inserted
C18_Witness ==
    \E c \in Callers :
      /\ ing[c].pc = "failed"
      /\ ing[c].embedFailed
      /\ Len(ing[c].documents) = 2
      /\ ing[c].documents[1] \in embedCache
      /\ ing[c].addCalls = 0
      /\ collection = <<>>

\* C19: a status probe answered without an index failure reports 200 with
\* the web-search flag equal to whether the credential is set, in both
\* situations (credential set, credential not set)
C19_StatusProbe ==
    \A c \in Callers :
      ( /\ ga[c].kind = "GET"
        /\ ga[c].pc = "responded"
        /\ ga[c].error \notin IndexErrors )
      => /\ ga[c].status = 200
         /\ ga[c].webSearchEnabled = apiKey

\* a call entered while an error is held has been answered 500 with that
\* error and never entered the initialization
C20_State ==
    \A c \in Callers :
      (ga[c].pc # "idle" /\ ga[c].errorAtCall # "") =>
         /\ ga[c].pc = "responded"
         /\ ga[c].status = 500
         /\ ga[c].error = ga[c].errorAtCall
         /\ ~ga[c].initialized

\* a held error is never cleared, no call enters the initialization while
\* one is held, and it is replaced only by an initialization that was entered
\* before the failure
C20_Step ==
    initError # "" =>
       /\ initError' # ""
       /\ \A c \in Callers : ga'[c].initialized => ga[c].initialized
       /\ initError' # initError =>
             \E c \in Callers :
                /\ ga[c].initialized
                /\ ga[c].errorAtCall = ""
                /\ ga[c].pc \in {"initializing", "counting", "loading"}

C24_State ==
    \A k \in DOMAIN searchCache :
      /\ k \in { NormalizedQuery(q) : q \in WebQueries }
      /\ searchCache[k].query = k

\* no key is removed; the cache changes only in the step in which a search
\* succeeds, and then only under the normalized query of that search; a
\* step in which a search fails leaves the cache as it is
C24_Step ==
    /\ DOMAIN searchCache \subseteq DOMAIN searchCache'
    /\ searchCache' # searchCache =>
          \E c \in Callers :
             /\ ws[c].pc = "fetching"
             /\ ws'[c].pc = "done"
             /\ Last(ws'[c].hist) = "ok"
             /\ DOMAIN searchCache' = DOMAIN searchCache \cup {NormalizedQuery(ws[c].query)}
             /\ searchCache'[NormalizedQuery(ws[c].query)].result = ws'[c].result
             /\ \A k \in DOMAIN searchCache \ {NormalizedQuery(ws[c].query)} :
                   searchCache'[k] = searchCache[k]
    /\ (\E c \in Callers : ws[c].pc # "failed" /\ ws'[c].pc = "failed") =>
          searchCache' = searchCache

\* C24: a web search that ends in failure leaves the search cache unchanged;
\* an entry is written only by a successful search, under the lowercased
\* and trimmed query; no operation removes a cache key.
C24_CacheFrame == [] C24_State /\ [][C24_Step]_vars

\* a search has failed for a query that is not cached while the cache holds
\* the entry that a search with capitals and a trailing blank wrote
C24_Witness ==
    \E c, d \in Callers :
      /\ ws[c].pc = "failed"
      /\ NormalizedQuery(ws[c].query) \notin DOMAIN searchCache
      /\ ws[d].pc = "done"
      /\ Last(ws[d].hist) = "ok"
      /\ ws[d].query # NormalizedQuery(ws[d].query)
      /\ NormalizedQuery(ws[d].query) \in DOMAIN searchCache

\* the cache holds a fresh entry for the normalized query
FreshlyCached(q) ==
    /\ NormalizedQuery(q) \in DOMAIN searchCache
    /\ now - searchCache[NormalizedQuery(q)].timestamp < CacheDuration

\* a timeout on a second or later attempt fails the search with the timeout
\* error; a 429 on the attempt that followed one timeout does not
C28_State ==
    \A c \in Callers :
      /\ (Len(ws[c].hist) >= 2 /\ Last(ws[c].hist) = "timeout") =>
            /\ ws[c].pc = "failed"
            /\ ws[c].err = "Web search timed out. Please try again."
            /\ ws[c].attempts = Len(ws[c].hist)
      /\ ws[c].hist = << "timeout", "429" >> =>
            \/ ws[c].pc = "cooldown" /\ ws[c].retryCount = 1
            \/ ws[c].pc = "fetching" /\ ws[c].retryCount = 2 /\ ws[c].attempts = 3
            \/ ws[c].pc = "done" /\ ws[c].retryCount = 2 /\ ws[c].attempts = 2

\* a retry (the counter goes up by one) returns the fresh cached result
\* without an outbound call, and makes one only without such a result
C28_Step ==
    \A c \in Callers :
      (ws[c].pc \in {"fetching", "cooldown"} /\ ws'[c].retryCount = ws[c].retryCount + 1) =>
         IF FreshlyCached(ws[c].query)
         THEN /\ ws'[c].pc = "done"
              /\ ws'[c].attempts = ws[c].attempts
              /\ ws'[c].result = searchCache[NormalizedQuery(ws[c].query)].result
         ELSE /\ ws'[c].pc = "fetching"
              /\ ws'[c].attempts = ws[c].attempts + 1

\* C28: rate-limit and timeout retries share one counter: a timeout on an
\* attempt reached through an earlier retry is not retried and surfaces the
\* timeout error, a 429 on the attempt reached through one timeout retry is
\* retried once more; every retry re-checks the cache first and returns a
\* fresh cached result without an outbound call.
C28_SharedRetryCounter == [] C28_State /\ [][C28_Step]_vars

\* one search failed by a timeout after a 429; another, after a timeout and
\* a 429, was served on its second retry from the cache without a third
\* outbound call
C28_Witness ==
    \E c, d \in Callers :
      /\ ws[c].hist = << "429", "timeout" >>
      /\ ws[c].pc = "failed"
      /\ ws[d].hist = << "timeout", "429" >>
      /\ ws[d].pc = "done"
      /\ ws[d].retryCount = 2
      /\ ws[d].attempts = 2

\* the source carries the text, the metadata and the score of the neighbour
ReportsNeighbour(source, neighbour) ==
    /\ source.document = neighbour.document
    /\ source.metadata = neighbour.metadata
    /\ source.score.defined = neighbour.distance.defined
    /\ source.score.defined => source.score.value = 10 - neighbour.distance.value

\* C29 as stated: every source returned by search() carries the score and
\* the metadata of the same neighbour as its document text, for every index
\* response, including those with null or empty document entries.
C29_SourceAlignment ==
    rs.pc = "done" =>
       \A i \in 1..Len(rs.result.sources) :
          \E j \in 1..Len(rs.response) :
             ReportsNeighbour(rs.result.sources[i], rs.response[j])

\* C27 as stated: per process the initialization is entered by at most one
\* request and the default documents are handed to the index at most once,
\* under every interleaving of first requests.
C27_InitializesOnce ==
    /\ Cardinality({ c \in Callers : ga[c].initialized }) <= 1
    /\ Len(issued) <= Len(DefaultDocuments)

\* C26 as stated: in a streaming agent request the tool of the tool frame
\* is the tool answer() uses for the retrieval and reports in its
\* AgentAnswer, under every interleaving with other requests.
C26_AnnouncedToolIsUsed ==
    \A r \in Callers :
      (rq[r].stream /\ ~rq[r].webOnly /\ rq[r].tool # "") =>
         /\ rq[r].tool = rq[r].routeTool
         /\ rq[r].answer = "returned" => rq[r].result.tool = rq[r].routeTool

\* the configured bound of a call
ConfiguredTimeout(kind) ==
    IF kind = "generate" THEN generationTimeout ELSE embeddingTimeout

\* C23 as stated: no generate or embed call is pending beyond its configured
\* timeout, and a call that got no response within it has failed with a
\* timeout error, distinct from the transport failures.
C23_CallsBounded ==
    \A c \in Callers :
      /\ oc[c].pc = "pending" => oc[c].elapsed <= ConfiguredTimeout(oc[c].kind)
      /\ (oc[c].pc = "failed" /\ oc[c].elapsed >= ConfiguredTimeout(oc[c].kind)) =>
            oc[c].err[2] \notin TransportErrors

\* the request has a backend search or a generation in flight
Retrieving(req) == req.pc \in {"both_wait", "rag_wait", "web_wait", "wso_wait"}
Generating(req) == req.pc \in {"generating", "wso_generating"}

\* a step of a request whose stream the client has cancelled enqueues no
\* frame, error frame included
C22_NoFrame ==
    \A r \in Reqs :
      (rq[r].cancelled /\ rq'[r].pc # "idle") => rq'[r].frames = rq[r].frames

\* such a step starts no backend search, no further outbound attempt of the
\* web search, and no generation
C22_NoCall ==
    \A r \in Reqs :
      rq[r].cancelled =>
         /\ Retrieving(rq'[r]) => Retrieving(rq[r])
         /\ Generating(rq'[r]) => Generating(rq[r])
         /\ ws'[r].attempts <= ws[r].attempts

\* the generation in flight at the cancellation is terminated: it does not
\* run to its end and deliver its text
C22_GenerationTerminated ==
    \A r \in Reqs :
      (rq[r].cancelled /\ Generating(rq[r])) =>
         rq'[r].gen \notin {"ok", "stream_ok"}

\* C22 as stated: once the caller has cancelled a streaming answer, the
\* pipeline of the request stops: the generation in flight is terminated, no
\* backend search or generation is started, no frame is enqueued, and no
\* error frame reports the cancellation.
C22_CancellationStops ==
    [][C22_NoFrame /\ C22_NoCall /\ C22_GenerationTerminated]_vars

\* the payloads of the frames of the given type, in the order of the stream
RECURSIVE PayloadsOf(_, _)
PayloadsOf(stream, type) ==
    IF stream = <<>> THEN <<>>
    ELSE (IF stream[2] = type THEN << stream[6] >> ELSE <<>>)
         \o PayloadsOf(SubSeq(stream, 10, Len(stream)), type)

\* C30 as stated: however the transport cuts the stream into read chunks,
\* a reader that has read the whole stream has delivered the content of
\* every message frame once and in order, and has treated a stream that
\* ends with an error frame as a failure, without calling the completion
\* callback.
C30_ReaderDelivers ==
    (rd.pc = "finished" /\ rd.rest = <<>> /\ ~rd.failed) =>
       /\ rd.delivered = PayloadsOf(rd.stream, "message")
       /\ PayloadsOf(rd.stream, "error") = <<>>
       /\ rd.completed = Len(PayloadsOf(rd.stream, "done"))

\* the query of an answer request is missing, empty or not a string
QueryMalformed(body) == body.query.type # "string" \/ body.query.items = <<>>

\* the documents of an ingestion request are missing or not an array, or
\* the metadata given the reading `given` of "present" is not an array or
\* differs in length from the documents
DocumentsMalformed(body, given) ==
    \/ ~IsArray(body.documents)
    \/ given /\ ~IsArray(body.metadatas)
    \/ given /\ Len(body.metadatas.items) # Len(body.documents.items)

\* the request of the caller was answered with the validation error and
\* entered neither getAgent nor addDocuments
AnswerRejected(call) ==
    /\ call.pc = "responded"
    /\ call.status = 400
    /\ call.error = "Missing or invalid 'query' field"
    /\ ~call.initialized
    /\ call.errorAtCall = ""

IngestionRejected(call) ==
    /\ call.pc = "rejected"
    /\ call.status = 400
    /\ call.error # ""
    /\ call.documents = <<>>
    /\ call.pending = {}
    /\ call.addCalls = 0

\* the step that takes a malformed request changes no state of a service
C21_Step ==
    \A c \in Callers :
      \/ ga[c].pc = "idle" /\ AnswerRejected(ga'[c])
      \/ ing[c].pc = "idle" /\ IngestionRejected(ing'[c])
      => UNCHANGED <<agentInstance, initError, collection, embedCache, issued>>

\* malformed requests in flight are rejected, metadata counting as given
\* under the reading `given`
C21_State(given(_)) ==
    \A c \in Callers :
      /\ (ga[c].pc # "idle" /\ ga[c].kind = "POST" /\ QueryMalformed(ga[c].body))
            => AnswerRejected(ga[c])
      /\ (ing[c].pc # "idle" /\ Posted(ing[c])
            /\ DocumentsMalformed(ing[c].body, given(ing[c].body.metadatas)))
            => IngestionRejected(ing[c])

\* the field is in the body
Present(v) == v.type # "undefined"

TerminalFrameSent(req) ==
    /\ req.pc = "closed"
    /\ req.frames # <<>>
    /\ req.frames[Len(req.frames)] \in {"done", "error"}

\* C25 as stated: under fair scheduling of the program's own steps, every
\* validated streaming request eventually emits a terminal frame (done or
\* error) and closes its stream, whatever the external services do.
C25_EventuallyTerminal ==
    \A r \in Reqs :
      (rq[r].stream /\ rq[r].pc \in Running) ~> TerminalFrameSent(rq[r])

====
